---- MODULE Spec2Model ----
(***************************************************************************)
(* State-machine model of the trading engine's signal-and-risk pipeline:   *)
(*   - Strategy::CStrategyEngine  (src/src/strategy/StrategyEngine.cpp)    *)
(*   - Risk::CRiskManager         (src/unnamed/part_006, RiskManager.cpp)  *)
(* Engine operations are run by threads and are cut at the points where a  *)
(* std::mutex is acquired and where a user-supplied callback is running.   *)
(* Doubles (prices, exposures, pnl) are modelled as integers.              *)
(***************************************************************************)
EXTENDS Integers, Sequences, FiniteSets, TLC

\* ------------------------------------------------------------------ domains
Threads == {"t1", "t2"}
NoThread == "none"

\* strategy names a caller can pass ("" is the empty std::string)
Names == {"rsi", "sma"}
\* position ids a caller can pass
Ids == {"p1", "p2"}

\* EStrategyState values the engine assigns
INACTIVE == "INACTIVE"
ACTIVE == "ACTIVE"
PAUSED == "PAUSED"
ERROR == "ERROR"

\* bound on the length of one per-strategy id list (the vector has none)
MaxPosList == 2
\* bound on the per-strategy trade counter (the int counter has none)
MaxTrades == 1

\* ------------------------------------------------------------------ state
VARIABLES
    \* CStrategyEngine
    mStrategies,          \* registered strategy names (keys of mStrategies)
    mStrategyStates,      \* map name -> EStrategyState
    mStrategyStats,       \* map name -> SStrategyStatistics
    mOpenPositions,       \* map id -> SPosition
    mPositionToStrategy,  \* map id -> strategy name
    mStrategyPositions,   \* map name -> vector of ids
    mStrategiesMutex,     \* owner of the registry mutex
    mPositionsMutex,      \* owner of the positions mutex
    mCallbacksMutex,      \* owner of the callbacks mutex
    mStrategyCallback,    \* TRUE when a signal callback is installed
    mPositionCallback,    \* TRUE when a position callback is installed
    mErrorCallback,       \* TRUE when an error callback is installed
    pc,                   \* per thread: where it is inside an engine operation
    arg,                  \* per thread: the locals of the operation it runs
    closedIds,            \* ids for which ClosePosition has succeeded
    activeStrategies,     \* per thread: the local vector of ExecuteAllStrategies and
                          \* how far its loop has come
    mDataMutex,           \* per strategy: owner of the strategy's own mDataMutex
    pendingCloses,        \* closes applied to the maps whose OnPositionClosed is
                          \* still to come, in the order they were applied
    stopped,              \* names for which StopStrategy has returned, no Start since
    \* CRiskManager
    riskOpenPositions,    \* CRiskManager::mOpenPositions, map id -> SPosition
    mSymbolExposure,      \* map symbol -> exposure
    mLastTradeTime,       \* map symbol -> time of the last RegisterPosition
    mTotalExposure,
    mTodayPnL,
    mStartOfDay,
    mMaxOpenPositions,
    mActiveAlerts,        \* vector of SRiskAlert
    riskPositionsMutex,   \* owner of CRiskManager::mPositionsMutex
    now,                  \* std::chrono::system_clock::now(), in seconds
    rpc,                  \* per thread: where it is inside a Risk Manager operation
    rarg,                 \* per thread: arguments and locals of that operation
    \* one strategy instance (CRSIStrategy, CSMAStrategy or CMACDStrategy)
    strategyKind,         \* which of the three classes the instance is
    mPeriod,              \* mParams.mRSIPeriod / mLongPeriod / mSlowPeriod
    mClosePrices,         \* size of the deque mClosePrices
    mIndicatorHistory,    \* size of the deque mRSIHistory / mSMAHistory / mMACDHistory
    mSignalHistory,       \* the deque mSignalHistory: type and timestamp of each entry
    mCurrentValues,       \* mCurrentRSIValues / mCurrentSMAValues / mCurrentMACDValues
    snapshot,             \* the JSON the last Serialize returned, and what it was taken from
    copy,                 \* a second instance of the same class, loaded from the snapshot
    lastOutcome,          \* how the last call on the strategy ended
    strategyBlocked,      \* a thread is stuck inside the strategy holding mDataMutex
    lastEmission,         \* per signal type: time of its last emission since Reset
    updates,              \* number of Update calls made so far
    mIsInitialized,       \* the atomic flag mIsInitialized
    \* the CBackTester object
    backtester,           \* its members, and the position of Run in its loop
    \* one strategy object's mutexes, as the threads calling its methods take them
    locks,                \* owners of mDataMutex and mMetricsMutex, each thread's place
    \* the position bookkeeping of the strategy objects the engine calls
    strategyObjects,      \* per name: mInPosition, mCurrentPositionId, mTotalTrades
    \* the signal analysis of one strategy instance
    analysis              \* the indicator values of the last two Updates, the
                          \* switches, and the last classification made

engineVars == <<mStrategies, mStrategyStates, mStrategyStats, mOpenPositions,
                mPositionToStrategy, mStrategyPositions, mStrategiesMutex,
                mPositionsMutex, mCallbacksMutex, mStrategyCallback,
                mPositionCallback, mErrorCallback, pc, arg, closedIds, mDataMutex,
                activeStrategies,
                pendingCloses, stopped>>

riskVars == <<riskOpenPositions, mSymbolExposure, mLastTradeTime, mTotalExposure,
              mTodayPnL, mStartOfDay, mMaxOpenPositions, mActiveAlerts,
              riskPositionsMutex, now, rpc, rarg>>

\* the Risk Manager's state without the clock
riskBook == <<riskOpenPositions, mSymbolExposure, mLastTradeTime, mTotalExposure,
              mTodayPnL, mStartOfDay, mMaxOpenPositions, mActiveAlerts,
              riskPositionsMutex, rpc, rarg>>

strategyVars == <<strategyKind, mPeriod, mClosePrices, mIndicatorHistory,
                  mSignalHistory, strategyBlocked, lastEmission, updates,
                  mCurrentValues, snapshot, copy, lastOutcome, mIsInitialized>>

objectVars == <<locks, strategyObjects>>

vars == <<engineVars, riskVars, strategyVars, backtester, analysis, objectVars>>

\* ------------------------------------------------------------------ std::map helpers
EmptyMap == [k \in {} |-> 0]
Put(m, k, v) == [x \in (DOMAIN m) \cup {k} |-> IF x = k THEN v ELSE m[x]]
Erase(m, k) == [x \in (DOMAIN m) \ {k} |-> m[x]]
Has(m, k) == k \in DOMAIN m

\* std::remove + erase: drop every occurrence of id from the vector
RemoveAll(seq, id) == SelectSeq(seq, LAMBDA x : x # id)
ElemsOf(seq) == {seq[i] : i \in 1..Len(seq)}

NoArg == [name |-> "", id |-> "", pnl |-> 0, result |-> ""]

\* release every engine mutex thread t holds (the lock_guards going out of scope)
Rel(m, t) == IF m = t THEN NoThread ELSE m

\* ------------------------------------------------------------------ strategy objects
\* no thread is inside the strategy object and its mutexes are free
NoLocks == [mDataMutex |-> NoThread, mMetricsMutex |-> NoThread,
            at |-> [t \in Threads |-> "idle"], in |-> [t \in Threads |-> ""]]

\* the position members of a strategy after Initialize
NewStrategyObject == [mInPosition |-> FALSE, mCurrentPositionId |-> "", mTotalTrades |-> 0]

\* ================================================================== CStrategyEngine
NewStats == [mTotalTrades |-> 0, mWinningTrades |-> 0, mLosingTrades |-> 0]

Idle(t) == pc[t] = "idle"

\* the thread returns (or throws) to its caller: every lock_guard it owns is
\* released; an ExecuteStrategy call hands its signal to the caller
Return(t) ==
    /\ pc' = [pc EXCEPT ![t] = IF arg[t].result = "" THEN "idle" ELSE "Returned"]
    /\ arg' = [arg EXCEPT ![t] = IF arg[t].result = "" THEN NoArg ELSE @]
    /\ mStrategiesMutex' = Rel(mStrategiesMutex, t)
    /\ mPositionsMutex' = Rel(mPositionsMutex, t)
    /\ mCallbacksMutex' = Rel(mCallbacksMutex, t)

\* a strategy whose Update would not wait for mDataMutex
DataMutexIgnored(name) == TRUE

\* the strategy's mDataMutex can be locked
DataMutexFree(name) == mDataMutex[name] = NoThread

\* RegisterStrategy: a duplicate name throws, a throwing Initialize() throws; in
\* both cases nothing was stored.  Initialize() locks the strategy's mDataMutex.  Otherwise the four registry maps get an entry.
RegisterNamed(t, name) ==
    /\ UNCHANGED <<analysis, backtester, objectVars, activeStrategies, riskVars, stopped, mDataMutex, pendingCloses>>
    /\ Idle(t)
    /\ mStrategiesMutex = NoThread
    /\ name \notin mStrategies
    /\ DataMutexFree(name)
    /\ mStrategies' = mStrategies \cup {name}
    /\ mStrategyStates' = Put(mStrategyStates, name, INACTIVE)
    /\ mStrategyStats' = Put(mStrategyStats, name, NewStats)
    /\ mStrategyPositions' = Put(mStrategyPositions, name, <<>>)
    /\ UNCHANGED <<mOpenPositions, mPositionToStrategy, mStrategiesMutex,
                   mPositionsMutex, mCallbacksMutex, mStrategyCallback,
                   mPositionCallback, mErrorCallback, pc, arg, closedIds>>

RegisterStrategy(t) ==
    /\ UNCHANGED strategyVars
    /\ \E name \in Names : RegisterNamed(t, name)

\* RemoveStrategy: erases the strategy's registry entries and its id list; the
\* open-positions map and the id->strategy map are not touched.
RemoveStrategy(t) ==
    /\ UNCHANGED <<analysis, backtester, objectVars, activeStrategies, riskVars, strategyVars, mDataMutex, pendingCloses>>
    /\ \E name \in mStrategies :
           /\ Idle(t)
           /\ mStrategiesMutex = NoThread
           /\ mStrategies' = mStrategies \ {name}
           /\ mStrategyStates' = Erase(mStrategyStates, name)
           /\ mStrategyStats' = Erase(mStrategyStats, name)
           /\ mStrategyPositions' = Erase(mStrategyPositions, name)
           /\ stopped' = stopped \ {name}
           /\ UNCHANGED <<mOpenPositions, mPositionToStrategy, mStrategiesMutex,
                          mPositionsMutex, mCallbacksMutex, mStrategyCallback,
                          mPositionCallback, mErrorCallback, pc, arg, closedIds>>

\* The body shared by Start/Stop/Pause/ResumeStrategy: under the registry mutex,
\* call the strategy's own method; on return store `target`, on a throw store
\* ERROR and go on to NotifyError with the registry mutex still held.
TransitionEngine(t, name, throws, target) ==
    /\ UNCHANGED <<analysis, backtester, objectVars, activeStrategies, riskVars, mDataMutex, pendingCloses>>
    /\ /\ Idle(t)
       /\ mStrategiesMutex = NoThread
       /\ IF throws
          THEN /\ mStrategyStates' = Put(mStrategyStates, name, ERROR)
               /\ mStrategiesMutex' = t
               /\ pc' = [pc EXCEPT ![t] = "NotifyError"]
               /\ arg' = [arg EXCEPT ![t] = [NoArg EXCEPT !.name = name]]
          ELSE /\ mStrategyStates' = Put(mStrategyStates, name, target)
               /\ UNCHANGED <<mStrategiesMutex, pc, arg>>
       /\ UNCHANGED <<mStrategies, mStrategyStats, mOpenPositions, mPositionToStrategy,
                      mStrategyPositions, mPositionsMutex, mCallbacksMutex,
                      mStrategyCallback, mPositionCallback, mErrorCallback, closedIds>>

Transition(t, name, throws, target) ==
    /\ UNCHANGED strategyVars
    /\ TransitionEngine(t, name, throws, target)

StartStrategy(t) ==
    \E name \in mStrategies, throws \in BOOLEAN :
        /\ Transition(t, name, throws, ACTIVE)
        /\ stopped' = stopped \ {name}

StopStrategy(t) ==
    \E name \in mStrategies, throws \in BOOLEAN :
        /\ Transition(t, name, throws, INACTIVE)
        /\ stopped' = IF throws THEN stopped ELSE stopped \cup {name}

PauseStrategy(t) ==
    \E name \in mStrategies, throws \in BOOLEAN :
        /\ Transition(t, name, throws, PAUSED)
        /\ UNCHANGED stopped

ResumeStrategy(t) ==
    \E name \in mStrategies, throws \in BOOLEAN :
        /\ Transition(t, name, throws, ACTIVE)
        /\ UNCHANGED stopped

\* ResetStrategy: on success INACTIVE and fresh statistics; on a throw only the
\* error notification (the state map is not written).  Reset() locks the
\* strategy's mDataMutex.
ResetStrategy(t) ==
    /\ UNCHANGED <<analysis, backtester, objectVars, activeStrategies, riskVars, strategyVars, stopped, mDataMutex, pendingCloses>>
    /\ \E name \in mStrategies, throws \in BOOLEAN :
           /\ Idle(t)
           /\ mStrategiesMutex = NoThread
           /\ DataMutexFree(name)
           /\ IF throws
              THEN /\ mStrategiesMutex' = t
                   /\ pc' = [pc EXCEPT ![t] = "NotifyError"]
                   /\ arg' = [arg EXCEPT ![t] = [NoArg EXCEPT !.name = name]]
                   /\ UNCHANGED <<mStrategyStates, mStrategyStats>>
              ELSE /\ mStrategyStates' = Put(mStrategyStates, name, INACTIVE)
                   /\ mStrategyStats' = Put(mStrategyStats, name, NewStats)
                   /\ UNCHANGED <<mStrategiesMutex, pc, arg>>
           /\ UNCHANGED <<mStrategies, mOpenPositions, mPositionToStrategy,
                          mStrategyPositions, mPositionsMutex, mCallbacksMutex,
                          mStrategyCallback, mPositionCallback, mErrorCallback, closedIds>>

\* NotifyError: lock the callbacks mutex, then run the error callback if one is set.
NotifyError(t) ==
    /\ UNCHANGED <<analysis, backtester, objectVars, activeStrategies, riskVars, strategyVars, stopped, mDataMutex, pendingCloses>>
    /\ /\ pc[t] = "NotifyError"
       /\ mCallbacksMutex = NoThread
       /\ IF mErrorCallback
          THEN /\ mCallbacksMutex' = t
               /\ pc' = [pc EXCEPT ![t] = "ErrorCallback"]
               /\ UNCHANGED <<arg, mStrategiesMutex, mPositionsMutex>>
          ELSE Return(t)
       /\ UNCHANGED <<mStrategies, mStrategyStates, mStrategyStats, mOpenPositions,
                      mPositionToStrategy, mStrategyPositions, mStrategyCallback,
                      mPositionCallback, mErrorCallback, closedIds>>

\* NotifyPositionUpdate: the same for the position callback.
NotifyPositionUpdate(t) ==
    /\ UNCHANGED <<analysis, backtester, objectVars, activeStrategies, riskVars, strategyVars, stopped, mDataMutex, pendingCloses>>
    /\ /\ pc[t] = "NotifyPositionUpdate"
       /\ mCallbacksMutex = NoThread
       /\ IF mPositionCallback
          THEN /\ mCallbacksMutex' = t
               /\ pc' = [pc EXCEPT ![t] = "PositionCallback"]
               /\ UNCHANGED <<arg, mStrategiesMutex, mPositionsMutex>>
          ELSE Return(t)
       /\ UNCHANGED <<mStrategies, mStrategyStates, mStrategyStats, mOpenPositions,
                      mPositionToStrategy, mStrategyPositions, mStrategyCallback,
                      mPositionCallback, mErrorCallback, closedIds>>

\* NotifyStrategySignal: the same for the signal callback.
NotifyStrategySignal(t) ==
    /\ UNCHANGED <<analysis, backtester, objectVars, activeStrategies, riskVars, strategyVars, stopped, mDataMutex, pendingCloses>>
    /\ /\ pc[t] = "NotifyStrategySignal"
       /\ mCallbacksMutex = NoThread
       /\ IF mStrategyCallback
          THEN /\ mCallbacksMutex' = t
               /\ pc' = [pc EXCEPT ![t] = "StrategyCallback"]
               /\ UNCHANGED <<arg, mStrategiesMutex, mPositionsMutex>>
          ELSE Return(t)
       /\ UNCHANGED <<mStrategies, mStrategyStates, mStrategyStats, mOpenPositions,
                      mPositionToStrategy, mStrategyPositions, mStrategyCallback,
                      mPositionCallback, mErrorCallback, closedIds>>

InCallback(t) == pc[t] \in {"ErrorCallback", "PositionCallback", "StrategyCallback"}

\* the user callback returns (or its exception is swallowed); the operation ends
CallbackReturn(t) ==
    /\ UNCHANGED <<analysis, backtester, objectVars, activeStrategies, riskVars, strategyVars, stopped, mDataMutex, pendingCloses>>
    /\ /\ InCallback(t)
       /\ Return(t)
       /\ UNCHANGED <<mStrategies, mStrategyStates, mStrategyStats, mOpenPositions,
                      mPositionToStrategy, mStrategyPositions, mStrategyCallback,
                      mPositionCallback, mErrorCallback, closedIds>>

\* a lookup that takes every registered strategy for an active one
StateOfIgnored(name) == ACTIVE

\* the state ExecuteStrategy reads: the map entry, INACTIVE when there is none
StateOf(name) == IF Has(mStrategyStates, name) THEN mStrategyStates[name] ELSE INACTIVE

\* ExecuteStrategy, first block: look the strategy and its state up under the
\* registry mutex; a state other than ACTIVE returns HOLD "Strategy is not
\* active" at once, without calling Update.
ExecuteStrategy(t) ==
    /\ UNCHANGED <<analysis, backtester, objectVars, activeStrategies, riskVars, strategyVars, stopped, mDataMutex, pendingCloses>>
    /\ \E name \in mStrategies :
           /\ Idle(t)
           /\ mStrategiesMutex = NoThread
           /\ IF StateOf(name) = ACTIVE
              THEN /\ pc' = [pc EXCEPT ![t] = "Update"]
                   /\ arg' = [arg EXCEPT ![t] = [NoArg EXCEPT !.name = name]]
              ELSE /\ pc' = [pc EXCEPT ![t] = "Returned"]
                   /\ arg' = [arg EXCEPT ![t] = [NoArg EXCEPT !.name = name,
                                                    !.result = "HOLD_NOT_ACTIVE"]]
           /\ UNCHANGED <<mStrategies, mStrategyStates, mStrategyStats, mOpenPositions,
                          mPositionToStrategy, mStrategyPositions, mStrategiesMutex,
                          mPositionsMutex, mCallbacksMutex, mStrategyCallback,
                          mPositionCallback, mErrorCallback, closedIds>>

\* strategy->Update starts: it locks the strategy's mDataMutex for its whole
\* run; no engine mutex is held
UpdateBegin(t) ==
    /\ UNCHANGED <<analysis, backtester, objectVars, activeStrategies, riskVars, strategyVars, stopped, pendingCloses>>
    /\ /\ pc[t] = "Update"
       /\ DataMutexFree(arg[t].name)
       /\ mDataMutex' = [mDataMutex EXCEPT ![arg[t].name] = t]
       /\ pc' = [pc EXCEPT ![t] = "InUpdate"]
       /\ UNCHANGED <<arg, mStrategies, mStrategyStates, mStrategyStats, mOpenPositions,
                      mPositionToStrategy, mStrategyPositions, mStrategiesMutex,
                      mPositionsMutex, mCallbacksMutex, mStrategyCallback,
                      mPositionCallback, mErrorCallback, closedIds>>

\* strategy->Update ends (mDataMutex is released) and the validation runs, with
\* no engine mutex held; they either yield a signal (the strategy's own, or HOLD "Signal validation failed") or
\* throw into the catch block.
ExecuteUpdate(t) ==
    /\ UNCHANGED <<analysis, backtester, objectVars, activeStrategies, riskVars, strategyVars, stopped, pendingCloses>>
    /\ \E outcome \in {"THROWS", "SIGNAL", "HOLD_INVALID"} :
           /\ pc[t] = "InUpdate"
           /\ mDataMutex' = [mDataMutex EXCEPT ![arg[t].name] = NoThread]
           /\ pc' = [pc EXCEPT ![t] = IF outcome = "THROWS" THEN "ExecuteCatch"
                                      ELSE "NotifyStrategySignal"]
           /\ arg' = [arg EXCEPT ![t].result = IF outcome = "THROWS" THEN "" ELSE outcome]
           /\ UNCHANGED <<mStrategies, mStrategyStates, mStrategyStats, mOpenPositions,
                          mPositionToStrategy, mStrategyPositions, mStrategiesMutex,
                          mPositionsMutex, mCallbacksMutex, mStrategyCallback,
                          mPositionCallback, mErrorCallback, closedIds>>

\* a catch block that lets the exception go on to the caller
ExecuteCatchRethrows(t) ==
    /\ UNCHANGED <<analysis, backtester, objectVars, activeStrategies, riskVars, strategyVars, stopped, mDataMutex, pendingCloses>>
    /\ /\ pc[t] = "ExecuteCatch"
       /\ pc' = [pc EXCEPT ![t] = "idle"]
       /\ arg' = [arg EXCEPT ![t] = NoArg]
       /\ UNCHANGED <<mStrategies, mStrategyStates, mStrategyStats, mOpenPositions,
                      mPositionToStrategy, mStrategyPositions, mStrategiesMutex,
                      mPositionsMutex, mCallbacksMutex, mStrategyCallback,
                      mPositionCallback, mErrorCallback, closedIds>>

\* catch block: lock the registry, store ERROR (operator[] inserts the key when the
\* strategy was removed meanwhile), then NotifyError with the registry still held;
\* the call will return HOLD "Execution error".
ExecuteCatch(t) ==
    /\ UNCHANGED <<analysis, backtester, objectVars, activeStrategies, riskVars, strategyVars, stopped, mDataMutex, pendingCloses>>
    /\ /\ pc[t] = "ExecuteCatch"
       /\ mStrategiesMutex = NoThread
       /\ mStrategiesMutex' = t
       /\ mStrategyStates' = Put(mStrategyStates, arg[t].name, ERROR)
       /\ pc' = [pc EXCEPT ![t] = "NotifyError"]
       /\ arg' = [arg EXCEPT ![t].result = "HOLD_ERROR"]
       /\ UNCHANGED <<mStrategies, mStrategyStats, mOpenPositions, mPositionToStrategy,
                      mStrategyPositions, mPositionsMutex, mCallbacksMutex,
                      mStrategyCallback, mPositionCallback, mErrorCallback, closedIds>>

\* the caller has received the signal ExecuteStrategy returned; when the caller
\* is ExecuteAllStrategies its loop goes on
ExecuteReturn(t) ==
    /\ UNCHANGED <<analysis, backtester, objectVars, riskVars, strategyVars, stopped, mDataMutex, pendingCloses>>
    /\ /\ pc[t] = "Returned"
       /\ pc' = [pc EXCEPT ![t] = IF activeStrategies[t].running
                                  THEN "ExecuteAllStrategies" ELSE "idle"]
       /\ activeStrategies' =
              [activeStrategies EXCEPT
                   ![t].failed = IF activeStrategies[t].running
                                    /\ arg[t].result = "HOLD_ERROR"
                                 THEN @ \cup {arg[t].name} ELSE @]
       /\ arg' = [arg EXCEPT ![t] = NoArg]
       /\ UNCHANGED <<mStrategies, mStrategyStates, mStrategyStats, mOpenPositions,
                      mPositionToStrategy, mStrategyPositions, mStrategiesMutex,
                      mPositionsMutex, mCallbacksMutex, mStrategyCallback,
                      mPositionCallback, mErrorCallback, closedIds>>

\* ------------------------------------------------------------------ ExecuteAllStrategies
\* the keys of the std::map mStrategyStates in iteration order
SortedNames == <<"rsi", "sma">>

NoLoop == [running |-> FALSE, snapshot |-> {}, todo |-> <<>>, called |-> {}, failed |-> {}]

\* GetActiveStrategies: the names whose recorded state is ACTIVE, in map order
GetActiveStrategies ==
    SelectSeq(SortedNames, LAMBDA n : Has(mStrategyStates, n) /\ mStrategyStates[n] = ACTIVE)

\* ExecuteAllStrategies, first statement: copy the active names under the
\* registry mutex
ExecuteAllStrategies(t) ==
    /\ UNCHANGED <<analysis, backtester, objectVars, riskVars, strategyVars, stopped, mDataMutex, pendingCloses>>
    /\ Idle(t)
    /\ mStrategiesMutex = NoThread
    /\ pc' = [pc EXCEPT ![t] = "ExecuteAllStrategies"]
    /\ activeStrategies' =
           [activeStrategies EXCEPT
                ![t] = [running |-> TRUE, snapshot |-> ElemsOf(GetActiveStrategies),
                        todo |-> GetActiveStrategies, called |-> {}, failed |-> {}]]
    /\ UNCHANGED <<arg, mStrategies, mStrategyStates, mStrategyStats, mOpenPositions,
                   mPositionToStrategy, mStrategyPositions, mStrategiesMutex,
                   mPositionsMutex, mCallbacksMutex, mStrategyCallback,
                   mPositionCallback, mErrorCallback, closedIds>>

\* a loop whose body has no try block: the first exception ends the whole call
ExecuteAllUncaught(t) ==
    /\ UNCHANGED <<analysis, backtester, objectVars, riskVars, strategyVars, stopped, mDataMutex, pendingCloses>>
    /\ pc[t] = "ExecuteAllStrategies"
    /\ activeStrategies[t].todo # <<>>
    /\ mStrategiesMutex = NoThread
    /\ Head(activeStrategies[t].todo) \notin mStrategies
    /\ pc' = [pc EXCEPT ![t] = "idle"]
    /\ activeStrategies' = [activeStrategies EXCEPT ![t] = NoLoop]
    /\ UNCHANGED <<arg, mStrategies, mStrategyStates, mStrategyStats, mOpenPositions,
                   mPositionToStrategy, mStrategyPositions, mStrategiesMutex,
                   mPositionsMutex, mCallbacksMutex, mStrategyCallback,
                   mPositionCallback, mErrorCallback, closedIds>>

\* ExecuteAllStrategies, one turn of the loop: the call of ExecuteStrategy for
\* the next name, up to the end of its first block.  A name that is no longer
\* registered makes ExecuteStrategy throw; the loop's catch prints the message
\* and the loop goes on.  A state other than ACTIVE returns HOLD at once.
\* After the last name the call returns.
ExecuteAllLoop(t) ==
    /\ UNCHANGED <<analysis, backtester, objectVars, riskVars, strategyVars, stopped, mDataMutex, pendingCloses>>
    /\ pc[t] = "ExecuteAllStrategies"
    /\ IF activeStrategies[t].todo = <<>>
       THEN /\ pc' = [pc EXCEPT ![t] = "idle"]
            /\ activeStrategies' = [activeStrategies EXCEPT ![t] = NoLoop]
            /\ UNCHANGED arg
       ELSE LET name == Head(activeStrategies[t].todo) IN
            /\ mStrategiesMutex = NoThread
            /\ activeStrategies' =
                   [activeStrategies EXCEPT
                        ![t].todo = Tail(@),
                        ![t].called = @ \cup {name},
                        ![t].failed = IF name \in mStrategies THEN @ ELSE @ \cup {name}]
            /\ IF name \in mStrategies /\ StateOf(name) = ACTIVE
               THEN /\ pc' = [pc EXCEPT ![t] = "Update"]
                    /\ arg' = [arg EXCEPT ![t] = [NoArg EXCEPT !.name = name]]
               ELSE UNCHANGED <<pc, arg>>
    /\ UNCHANGED <<mStrategies, mStrategyStates, mStrategyStats, mOpenPositions,
                   mPositionToStrategy, mStrategyPositions, mStrategiesMutex,
                   mPositionsMutex, mCallbacksMutex, mStrategyCallback,
                   mPositionCallback, mErrorCallback, closedIds>>

\* ------------------------------------------------------------------ positions
ListOf(name) == IF Has(mStrategyPositions, name) THEN mStrategyPositions[name] ELSE <<>>

\* ClosePosition calls in flight that have not yet reached the statistics of `name`
ClosesInFlight(name) ==
    Cardinality({u \in Threads : pc[u] = "UpdateStrategyStatistics" /\ arg[u].name = name})

\* RegisterPosition, first lock_guard: the positions mutex.
RegisterPosition(t) ==
    /\ UNCHANGED <<analysis, backtester, objectVars, activeStrategies, riskVars, strategyVars, stopped, mDataMutex, pendingCloses>>
    /\ \E id \in Ids \cup {""}, name \in Names \cup {""} :
           /\ Idle(t)
           /\ mPositionsMutex = NoThread
           /\ Len(ListOf(name)) < MaxPosList
           /\ mPositionsMutex' = t
           /\ pc' = [pc EXCEPT ![t] = "RegisterPosition2"]
           /\ arg' = [arg EXCEPT ![t] = [NoArg EXCEPT !.name = name, !.id = id]]
           /\ UNCHANGED <<mStrategies, mStrategyStates, mStrategyStats, mOpenPositions,
                          mPositionToStrategy, mStrategyPositions, mStrategiesMutex,
                          mCallbacksMutex, mStrategyCallback, mPositionCallback,
                          mErrorCallback, closedIds>>

\* the checks RegisterPosition makes before it stores anything
RegisterPositionAccepts(id, name) == id # "" /\ name # "" /\ name \in mStrategies

\* RegisterPosition, second lock_guard (the registry mutex) and body: validate,
\* store into the three position maps, tell the strategy, then go on to
\* NotifyPositionUpdate with both mutexes still held.
RegisterPosition2Engine(t) ==
    /\ UNCHANGED <<analysis, backtester, locks, activeStrategies, riskVars, strategyVars, stopped, mDataMutex, pendingCloses>>
    /\ /\ pc[t] = "RegisterPosition2"
       /\ mStrategiesMutex = NoThread
       /\ IF RegisterPositionAccepts(arg[t].id, arg[t].name)
          THEN /\ mOpenPositions' = Put(mOpenPositions, arg[t].id,
                                        [mStrategyName |-> arg[t].name, mCurrentPrice |-> 0])
               /\ mPositionToStrategy' = Put(mPositionToStrategy, arg[t].id, arg[t].name)
               /\ mStrategyPositions' = Put(mStrategyPositions, arg[t].name,
                                            Append(ListOf(arg[t].name), arg[t].id))
               /\ mStrategiesMutex' = t
               /\ pc' = [pc EXCEPT ![t] = "NotifyPositionUpdate"]
               /\ arg' = [arg EXCEPT ![t] = NoArg]
               /\ UNCHANGED <<mPositionsMutex, mCallbacksMutex>>
          ELSE /\ Return(t)
               /\ UNCHANGED <<mOpenPositions, mPositionToStrategy, mStrategyPositions>>
       /\ UNCHANGED <<mStrategies, mStrategyStates, mStrategyStats, mStrategyCallback,
                      mPositionCallback, mErrorCallback, closedIds>>

\* the same with a strategy whose OnPositionOpened keeps no state
RegisterPosition2(t) == RegisterPosition2Engine(t) /\ UNCHANGED strategyObjects

\* ClosePosition, first block (under the positions mutex only): an unknown id
\* throws; otherwise the id leaves mOpenPositions and mPositionToStrategy and
\* every occurrence of it leaves the list of the strategy mPositionToStrategy names.
ClosePosition(t) ==
    /\ UNCHANGED <<analysis, backtester, objectVars, activeStrategies, riskVars, strategyVars, stopped, mDataMutex>>
    /\ \E id \in DOMAIN mOpenPositions, pnl \in {-1, 0, 1} :
           LET known == Has(mPositionToStrategy, id)
               strategyName == IF known THEN mPositionToStrategy[id] ELSE ""
           IN  /\ Idle(t)
               /\ mPositionsMutex = NoThread
               /\ Has(mStrategyStats, strategyName) =>
                      mStrategyStats[strategyName].mTotalTrades
                          + ClosesInFlight(strategyName) < MaxTrades
               /\ mOpenPositions' = Erase(mOpenPositions, id)
               /\ mPositionToStrategy' = Erase(mPositionToStrategy, id)
               /\ mStrategyPositions' =
                      IF known
                      THEN Put(mStrategyPositions, strategyName,
                               RemoveAll(ListOf(strategyName), id))
                      ELSE mStrategyPositions
               /\ closedIds' = closedIds \cup {id}
               /\ pendingCloses' = IF strategyName # ""
                                   THEN Append(pendingCloses,
                                               [name |-> strategyName, id |-> id, thread |-> t])
                                   ELSE pendingCloses
               /\ pc' = [pc EXCEPT ![t] = IF strategyName # ""
                                          THEN "UpdateStrategyStatistics"
                                          ELSE "NotifyPositionUpdate"]
               /\ arg' = [arg EXCEPT ![t] = [NoArg EXCEPT !.name = strategyName, !.pnl = pnl]]
               /\ UNCHANGED <<mStrategies, mStrategyStates, mStrategyStats,
                              mStrategiesMutex, mPositionsMutex, mCallbacksMutex,
                              mStrategyCallback, mPositionCallback, mErrorCallback>>

\* a count in which a trade with pnl = 0 is neither a win nor a loss
StatsAfterTradeZeroUncounted(stats, pnl) ==
    [stats EXCEPT !.mTotalTrades = @ + 1,
                  !.mWinningTrades = IF pnl > 0 THEN @ + 1 ELSE @,
                  !.mLosingTrades = IF pnl < 0 THEN @ + 1 ELSE @]

\* SStrategyStatistics after one closed trade with this pnl
StatsAfterTrade(stats, pnl) ==
    [stats EXCEPT !.mTotalTrades = @ + 1,
                  !.mWinningTrades = IF pnl > 0 THEN @ + 1 ELSE @,
                  !.mLosingTrades = IF pnl > 0 THEN @ ELSE @ + 1]

\* UpdateStrategyStatistics (under the registry mutex): no entry, no update.
UpdateStrategyStatisticsEngine(t) ==
    /\ UNCHANGED <<analysis, backtester, locks, activeStrategies, riskVars, strategyVars, stopped, mDataMutex, pendingCloses>>
    /\ /\ pc[t] = "UpdateStrategyStatistics"
       /\ mStrategiesMutex = NoThread
       /\ mStrategyStats' =
              IF Has(mStrategyStats, arg[t].name)
              THEN Put(mStrategyStats, arg[t].name,
                       StatsAfterTrade(mStrategyStats[arg[t].name], arg[t].pnl))
              ELSE mStrategyStats
       /\ pc' = [pc EXCEPT ![t] = "OnPositionClosed"]
       /\ arg' = [arg EXCEPT ![t] = NoArg]
       /\ UNCHANGED <<mStrategies, mStrategyStates, mOpenPositions, mPositionToStrategy,
                      mStrategyPositions, mStrategiesMutex, mPositionsMutex,
                      mCallbacksMutex, mStrategyCallback, mPositionCallback,
                      mErrorCallback, closedIds>>

\* the same with a strategy whose UpdateMetrics keeps no state
UpdateStrategyStatistics(t) == UpdateStrategyStatisticsEngine(t) /\ UNCHANGED strategyObjects

\* ClosePosition, third block: OnPositionClosed on the strategy under the registry
\* mutex, which is released before NotifyPositionUpdate.
OnPositionClosedEngine(t) ==
    /\ UNCHANGED <<analysis, backtester, locks, activeStrategies, riskVars, strategyVars, stopped, mDataMutex>>
    /\ /\ pc[t] = "OnPositionClosed"
       /\ mStrategiesMutex = NoThread
       /\ pendingCloses' = SelectSeq(pendingCloses, LAMBDA e : e.thread # t)
       /\ pc' = [pc EXCEPT ![t] = "NotifyPositionUpdate"]
       /\ UNCHANGED <<mStrategies, mStrategyStates, mStrategyStats, mOpenPositions,
                      mPositionToStrategy, mStrategyPositions, mStrategiesMutex,
                      mPositionsMutex, mCallbacksMutex, mStrategyCallback,
                      mPositionCallback, mErrorCallback, arg, closedIds>>

\* the same with a strategy whose OnPositionClosed keeps no state
OnPositionClosed(t) == OnPositionClosedEngine(t) /\ UNCHANGED strategyObjects

\* price values a caller passes to UpdatePosition
Prices == {1}

\* UpdatePosition: the positions mutex is held for the whole call; an unknown id
\* throws, otherwise the current price is stored.
UpdatePosition(t) ==
    /\ UNCHANGED <<analysis, backtester, objectVars, activeStrategies, riskVars, strategyVars, stopped, mDataMutex, pendingCloses>>
    /\ \E id \in DOMAIN mOpenPositions, currentPrice \in Prices :
           /\ Idle(t)
           /\ mPositionsMutex = NoThread
           /\ mPositionsMutex' = t
           /\ mOpenPositions' = [mOpenPositions EXCEPT ![id].mCurrentPrice = currentPrice]
           /\ pc' = [pc EXCEPT ![t] = "UpdatePosition2"]
           /\ UNCHANGED <<arg, mStrategies, mStrategyStates, mStrategyStats,
                          mPositionToStrategy, mStrategyPositions, mStrategiesMutex,
                          mCallbacksMutex, mStrategyCallback, mPositionCallback,
                          mErrorCallback, closedIds>>

\* UpdatePosition, inner block: OnPositionUpdated under the registry mutex, taken
\* while the positions mutex is held and released before NotifyPositionUpdate.
UpdatePosition2(t) ==
    /\ UNCHANGED <<analysis, backtester, objectVars, activeStrategies, riskVars, strategyVars, stopped, mDataMutex, pendingCloses>>
    /\ /\ pc[t] = "UpdatePosition2"
       /\ mStrategiesMutex = NoThread
       /\ pc' = [pc EXCEPT ![t] = "NotifyPositionUpdate"]
       /\ UNCHANGED <<mStrategies, mStrategyStates, mStrategyStats, mOpenPositions,
                      mPositionToStrategy, mStrategyPositions, mStrategiesMutex,
                      mPositionsMutex, mCallbacksMutex, mStrategyCallback,
                      mPositionCallback, mErrorCallback, arg, closedIds>>

\* SetStrategyCallback / SetPositionCallback / SetErrorCallback install a callback
SetStrategyCallback(t) ==
    /\ UNCHANGED <<analysis, backtester, objectVars, activeStrategies, riskVars, strategyVars, stopped, mDataMutex, pendingCloses>>
    /\ /\ Idle(t) /\ mCallbacksMutex = NoThread /\ ~mStrategyCallback
       /\ mStrategyCallback' = TRUE
       /\ UNCHANGED <<mStrategies, mStrategyStates, mStrategyStats, mOpenPositions,
                      mPositionToStrategy, mStrategyPositions, mStrategiesMutex,
                      mPositionsMutex, mCallbacksMutex, mPositionCallback,
                      mErrorCallback, pc, arg, closedIds>>

SetPositionCallback(t) ==
    /\ UNCHANGED <<analysis, backtester, objectVars, activeStrategies, riskVars, strategyVars, stopped, mDataMutex, pendingCloses>>
    /\ /\ Idle(t) /\ mCallbacksMutex = NoThread /\ ~mPositionCallback
       /\ mPositionCallback' = TRUE
       /\ UNCHANGED <<mStrategies, mStrategyStates, mStrategyStats, mOpenPositions,
                      mPositionToStrategy, mStrategyPositions, mStrategiesMutex,
                      mPositionsMutex, mCallbacksMutex, mStrategyCallback,
                      mErrorCallback, pc, arg, closedIds>>

SetErrorCallback(t) ==
    /\ UNCHANGED <<analysis, backtester, objectVars, activeStrategies, riskVars, strategyVars, stopped, mDataMutex, pendingCloses>>
    /\ /\ Idle(t) /\ mCallbacksMutex = NoThread /\ ~mErrorCallback
       /\ mErrorCallback' = TRUE
       /\ UNCHANGED <<mStrategies, mStrategyStates, mStrategyStats, mOpenPositions,
                      mPositionToStrategy, mStrategyPositions, mStrategiesMutex,
                      mPositionsMutex, mCallbacksMutex, mStrategyCallback,
                      mPositionCallback, pc, arg, closedIds>>

\* ================================================================== CRiskManager
\* symbols a caller can pass ("" is the empty std::string)
Symbols == {"BTCUSDT", "ETHUSDT"}

\* constructor defaults and fixed values of RiskManager.cpp
mMaxSymbolExposure == 20
mMaxDailyLoss == 10
DefaultMaxOpenPositions == 5
mMinTimeBetweenTrades == 60
AccountBalance == 10000
SecondsPerDay == 86400

\* inputs of the Risk Manager calls
RegisterPrices == {600, 1500}
CheckQuantities == {0, 1}
CheckPrices == {0, 600}
Pnls == {-1000}
MaxOpenChoices == {1}

\* the clock advances in steps of TickSeconds, at most MaxTicks per day, over MaxDays days
TickSeconds == 60
MaxTicks == 1
MaxDays == 1
\* bounds on the (unbounded) doubles mTotalExposure and mTodayPnL
MaxExposure == 2100
MaxAbsPnL == 1000

NoRArg == [symbol |-> "", quantity |-> 0, price |-> 0, id |-> "", pnl |-> 0,
           readPnL |-> 0, result |-> "", tripped |-> ""]

RiskIdle(t) == rpc[t] = "idle"

\* std::chrono::floor<std::chrono::days>
FloorDay(tp) == (tp \div SecondsPerDay) * SecondsPerDay

\* position.mQuantity * position.mEntryPrice
ExposureOf(position) == position.mQuantity * position.mEntryPrice

\* a symbol figure that is overwritten instead of accumulated
ExposureOnForgotten(symbol) == 0

\* mSymbolExposure.find(symbol), 0.0 when there is no entry
ExposureOn(symbol) == IF Has(mSymbolExposure, symbol) THEN mSymbolExposure[symbol] ELSE 0

\* the comparisons of the five checks
BasicParametersOk(symbol, quantity, price) == symbol # "" /\ quantity > 0 /\ price > 0

MaxOpenPositionsOk(count, max) == count < max

DailyLossOk(todayPnL) == -todayPnL < (AccountBalance * mMaxDailyLoss) \div 100

SymbolExposureOk(currentExposure, addedExposure) ==
    currentExposure + addedExposure <= (AccountBalance * mMaxSymbolExposure) \div 100

TradeFrequencyOk(symbol) ==
    ~(Has(mLastTradeTime, symbol) /\ now - mLastTradeTime[symbol] < mMinTimeBetweenTrades)

\* CheckPositionAllowed returns: result is "true" or "false", tripped names the
\* check that returned false
GateReturns(t, result, tripped) ==
    /\ rpc' = [rpc EXCEPT ![t] = "Returned"]
    /\ rarg' = [rarg EXCEPT ![t] = [NoRArg EXCEPT !.result = result, !.tripped = tripped]]

GateContinues(t, label) ==
    /\ rpc' = [rpc EXCEPT ![t] = label]
    /\ UNCHANGED rarg

\* CheckPositionAllowed, entry: the basic-parameter test
CheckPositionAllowed(t) ==
    /\ UNCHANGED <<analysis, backtester, objectVars, engineVars, strategyVars>>
    /\ RiskIdle(t)
    /\ \E symbol \in Symbols \cup {""}, quantity \in CheckQuantities, price \in CheckPrices :
           IF BasicParametersOk(symbol, quantity, price)
           THEN /\ rpc' = [rpc EXCEPT ![t] = "CheckMaxOpenPositions"]
                /\ rarg' = [rarg EXCEPT ![t] = [NoRArg EXCEPT !.symbol = symbol,
                                                   !.quantity = quantity, !.price = price]]
           ELSE GateReturns(t, "false", "PARAMETERS")
    /\ UNCHANGED <<riskOpenPositions, mSymbolExposure, mLastTradeTime, mTotalExposure,
                   mTodayPnL, mStartOfDay, mMaxOpenPositions, mActiveAlerts,
                   riskPositionsMutex, now>>

\* CheckMaxOpenPositions: locks, compares, unlocks
CheckMaxOpenPositions(t) ==
    /\ UNCHANGED <<analysis, backtester, objectVars, engineVars, strategyVars>>
    /\ rpc[t] = "CheckMaxOpenPositions"
    /\ riskPositionsMutex = NoThread
    /\ IF MaxOpenPositionsOk(Cardinality(DOMAIN riskOpenPositions), mMaxOpenPositions)
       THEN GateContinues(t, "CheckMaxDailyLoss")
       ELSE GateReturns(t, "false", "MAX_POSITIONS_LIMIT")
    /\ UNCHANGED <<riskOpenPositions, mSymbolExposure, mLastTradeTime, mTotalExposure,
                   mTodayPnL, mStartOfDay, mMaxOpenPositions, mActiveAlerts,
                   riskPositionsMutex, now>>

\* today > floor<days>(mStartOfDay), with today = floor<days>(now)
DayAdvanced == FloorDay(now) > FloorDay(mStartOfDay)

\* CheckMaxDailyLoss: takes no lock.  It reads the clock and mStartOfDay; when
\* the day has changed it goes on to reset the daily figures, otherwise it
\* compares at once.
CheckMaxDailyLoss(t) ==
    /\ UNCHANGED <<analysis, backtester, objectVars, engineVars, strategyVars>>
    /\ rpc[t] = "CheckMaxDailyLoss"
    /\ IF DayAdvanced
       THEN GateContinues(t, "DailyLossReset")
       ELSE IF DailyLossOk(mTodayPnL)
            THEN GateContinues(t, "CheckSymbolExposure")
            ELSE GateReturns(t, "false", "DAILY_LOSS_LIMIT")
    /\ UNCHANGED <<riskOpenPositions, mSymbolExposure, mLastTradeTime, mTotalExposure,
                   mTodayPnL, mStartOfDay, mMaxOpenPositions, mActiveAlerts,
                   riskPositionsMutex, now>>

\* CheckMaxDailyLoss, the two assignments inside the if; no lock is held, so
\* other threads may have run since the test
DailyLossReset(t) ==
    /\ UNCHANGED <<analysis, backtester, objectVars, engineVars, strategyVars>>
    /\ rpc[t] = "DailyLossReset"
    /\ mStartOfDay' = FloorDay(now)
    /\ mTodayPnL' = 0
    /\ GateContinues(t, "DailyLossEvaluate")
    /\ UNCHANGED <<riskOpenPositions, mSymbolExposure, mLastTradeTime, mTotalExposure,
                   mMaxOpenPositions, mActiveAlerts, riskPositionsMutex, now>>

\* CheckMaxDailyLoss, the comparison after a reset
DailyLossEvaluate(t) ==
    /\ UNCHANGED <<analysis, backtester, objectVars, engineVars, strategyVars>>
    /\ rpc[t] = "DailyLossEvaluate"
    /\ IF DailyLossOk(mTodayPnL)
       THEN GateContinues(t, "CheckSymbolExposure")
       ELSE GateReturns(t, "false", "DAILY_LOSS_LIMIT")
    /\ UNCHANGED <<riskOpenPositions, mSymbolExposure, mLastTradeTime, mTotalExposure,
                   mTodayPnL, mStartOfDay, mMaxOpenPositions, mActiveAlerts,
                   riskPositionsMutex, now>>

\* CheckSymbolExposure: locks, compares, unlocks
CheckSymbolExposure(t) ==
    /\ UNCHANGED <<analysis, backtester, objectVars, engineVars, strategyVars>>
    /\ rpc[t] = "CheckSymbolExposure"
    /\ riskPositionsMutex = NoThread
    /\ IF SymbolExposureOk(ExposureOn(rarg[t].symbol), rarg[t].quantity * rarg[t].price)
       THEN GateContinues(t, "CheckTradeFrequency")
       ELSE GateReturns(t, "false", "SYMBOL_EXPOSURE_LIMIT")
    /\ UNCHANGED <<riskOpenPositions, mSymbolExposure, mLastTradeTime, mTotalExposure,
                   mTodayPnL, mStartOfDay, mMaxOpenPositions, mActiveAlerts,
                   riskPositionsMutex, now>>

\* CheckTradeFrequency: locks, compares, unlocks; CheckMarketVolatility, which
\* follows it, returns true
CheckTradeFrequency(t) ==
    /\ UNCHANGED <<analysis, backtester, objectVars, engineVars, strategyVars>>
    /\ rpc[t] = "CheckTradeFrequency"
    /\ riskPositionsMutex = NoThread
    /\ IF TradeFrequencyOk(rarg[t].symbol)
       THEN GateReturns(t, "true", "")
       ELSE GateReturns(t, "false", "TRADE_FREQUENCY")
    /\ UNCHANGED <<riskOpenPositions, mSymbolExposure, mLastTradeTime, mTotalExposure,
                   mTodayPnL, mStartOfDay, mMaxOpenPositions, mActiveAlerts,
                   riskPositionsMutex, now>>

\* the caller has received the result of CheckPositionAllowed
CheckReturn(t) ==
    /\ UNCHANGED <<analysis, backtester, objectVars, engineVars, strategyVars>>
    /\ rpc[t] = "Returned"
    /\ rpc' = [rpc EXCEPT ![t] = "idle"]
    /\ rarg' = [rarg EXCEPT ![t] = NoRArg]
    /\ UNCHANGED <<riskOpenPositions, mSymbolExposure, mLastTradeTime, mTotalExposure,
                   mTodayPnL, mStartOfDay, mMaxOpenPositions, mActiveAlerts,
                   riskPositionsMutex, now>>

\* CRiskManager::RegisterPosition, first half: lock, reject an empty id (nothing
\* is stored), else store the position under its id and add its exposure to the
\* symbol's figure.  An id that is already open is overwritten.
RiskRegisterPosition(t) ==
    /\ UNCHANGED <<analysis, backtester, objectVars, engineVars, strategyVars>>
    /\ RiskIdle(t)
    /\ riskPositionsMutex = NoThread
    /\ \E id \in Ids \cup {""}, symbol \in Symbols, price \in RegisterPrices :
           LET position == [mSymbol |-> symbol, mQuantity |-> 1, mEntryPrice |-> price]
           IN  IF id = ""
               THEN UNCHANGED <<riskOpenPositions, mSymbolExposure, riskPositionsMutex,
                                rpc, rarg>>
               ELSE /\ mTotalExposure + ExposureOf(position) <= MaxExposure
                    /\ riskOpenPositions' = Put(riskOpenPositions, id, position)
                    /\ mSymbolExposure' = Put(mSymbolExposure, symbol,
                                              ExposureOn(symbol) + ExposureOf(position))
                    /\ riskPositionsMutex' = t
                    /\ rpc' = [rpc EXCEPT ![t] = "RegisterPosition2"]
                    /\ rarg' = [rarg EXCEPT ![t] = [NoRArg EXCEPT !.id = id]]
    /\ UNCHANGED <<mLastTradeTime, mTotalExposure, mTodayPnL, mStartOfDay,
                   mMaxOpenPositions, mActiveAlerts, now>>

\* RegisterPosition, second half: total exposure, last trade time, unlock
RiskRegisterPosition2(t) ==
    /\ UNCHANGED <<analysis, backtester, objectVars, engineVars, strategyVars>>
    /\ rpc[t] = "RegisterPosition2"
    /\ LET position == riskOpenPositions[rarg[t].id]
       IN  /\ mTotalExposure' = mTotalExposure + ExposureOf(position)
           /\ mLastTradeTime' = Put(mLastTradeTime, position.mSymbol, now)
    /\ riskPositionsMutex' = NoThread
    /\ rpc' = [rpc EXCEPT ![t] = "idle"]
    /\ rarg' = [rarg EXCEPT ![t] = NoRArg]
    /\ UNCHANGED <<riskOpenPositions, mSymbolExposure, mTodayPnL, mStartOfDay,
                   mMaxOpenPositions, mActiveAlerts, now>>

\* CRiskManager::ClosePosition, first half: lock, an unknown id throws (nothing
\* changes), else subtract the position's exposure from its symbol's figure.
\* mTodayPnL is read here or at the write: CheckMaxDailyLoss writes it without
\* the lock, so the addition may see either value.
RiskClosePosition(t) ==
    /\ UNCHANGED <<analysis, backtester, objectVars, engineVars, strategyVars>>
    /\ RiskIdle(t)
    /\ riskPositionsMutex = NoThread
    /\ \E id \in Ids, pnl \in Pnls :
           IF ~Has(riskOpenPositions, id)
           THEN UNCHANGED <<mSymbolExposure, riskPositionsMutex, rpc, rarg>>
           ELSE LET position == riskOpenPositions[id]
                IN  /\ mTodayPnL + pnl <= MaxAbsPnL
                    /\ mTodayPnL + pnl >= -MaxAbsPnL
                    /\ mSymbolExposure' = Put(mSymbolExposure, position.mSymbol,
                                              ExposureOn(position.mSymbol) - ExposureOf(position))
                    /\ riskPositionsMutex' = t
                    /\ rpc' = [rpc EXCEPT ![t] = "ClosePosition2"]
                    /\ rarg' = [rarg EXCEPT ![t] = [NoRArg EXCEPT !.id = id, !.pnl = pnl,
                                                       !.readPnL = mTodayPnL]]
    /\ UNCHANGED <<riskOpenPositions, mLastTradeTime, mTotalExposure, mTodayPnL,
                   mStartOfDay, mMaxOpenPositions, mActiveAlerts, now>>

\* ClosePosition, second half: total exposure, today's pnl, erase, unlock
RiskClosePosition2(t) ==
    /\ UNCHANGED <<analysis, backtester, objectVars, engineVars, strategyVars>>
    /\ rpc[t] = "ClosePosition2"
    /\ mTotalExposure' = mTotalExposure - ExposureOf(riskOpenPositions[rarg[t].id])
    /\ \E seen \in {mTodayPnL, rarg[t].readPnL} : mTodayPnL' = seen + rarg[t].pnl
    /\ riskOpenPositions' = Erase(riskOpenPositions, rarg[t].id)
    /\ riskPositionsMutex' = NoThread
    /\ rpc' = [rpc EXCEPT ![t] = "idle"]
    /\ rarg' = [rarg EXCEPT ![t] = NoRArg]
    /\ UNCHANGED <<mSymbolExposure, mLastTradeTime, mStartOfDay, mMaxOpenPositions,
                   mActiveAlerts, now>>

\* SetMaxOpenPositions: a plain store, no lock
SetMaxOpenPositions(t) ==
    /\ UNCHANGED <<analysis, backtester, objectVars, engineVars, strategyVars>>
    /\ RiskIdle(t)
    /\ \E maxPositions \in MaxOpenChoices :
           /\ maxPositions # mMaxOpenPositions
           /\ mMaxOpenPositions' = maxPositions
    /\ UNCHANGED <<riskOpenPositions, mSymbolExposure, mLastTradeTime, mTotalExposure,
                   mTodayPnL, mStartOfDay, mActiveAlerts, riskPositionsMutex, now,
                   rpc, rarg>>

\* the system clock advances within the day
ClockTick ==
    /\ UNCHANGED <<analysis, backtester, objectVars, engineVars, strategyVars>>
    /\ now - FloorDay(now) < MaxTicks * TickSeconds
    /\ now' = now + TickSeconds
    /\ UNCHANGED <<riskOpenPositions, mSymbolExposure, mLastTradeTime, mTotalExposure,
                   mTodayPnL, mStartOfDay, mMaxOpenPositions, mActiveAlerts,
                   riskPositionsMutex, rpc, rarg>>

\* midnight passes
ClockNextDay ==
    /\ UNCHANGED <<analysis, backtester, objectVars, engineVars, strategyVars>>
    /\ now < MaxDays * SecondsPerDay
    /\ now' = FloorDay(now) + SecondsPerDay
    /\ UNCHANGED <<riskOpenPositions, mSymbolExposure, mLastTradeTime, mTotalExposure,
                   mTodayPnL, mStartOfDay, mMaxOpenPositions, mActiveAlerts,
                   riskPositionsMutex, rpc, rarg>>

\* ================================================================== the strategies
\* One strategy instance.  Every public operation of the three classes takes a
\* lock_guard on mDataMutex as its first statement, so each operation is one step.
StrategyKinds == {"RSI", "SMA", "MACD"}

\* the values of ERSISignalType / ESMASignalType / EMACDSignalType other than NONE
SignalTypes == {"BUY", "SELL"}
NoSignal == "NONE"
NoTime == -1

MaxIndicatorHistory == 500
MaxSignalHistory == 100
MinClosePrices == 200
DefaultPeriod == 26
MACDSignalPeriod == 9
SecondsPerMinute == 60

\* inputs: klines per Update, periods passed to Configure, entries of "history"
KlineCounts == {0, 1, 150}
ConfigPeriods == {14, 100}
NoHistory == -1
NoConfig == 0
NoCurrent == -1
SerializedHistoryMax == 100

\* values an indicator takes
IndicatorValues == {70}

\* no Serialize yet, no second instance yet, a second instance stuck in Deserialize
NoSnapshot == [data |-> "none"]
NoCopy == [mPeriod |-> 0]
BlockedCopy == [mPeriod |-> -1]
HistoryItems == {NoHistory, 0, 501}

\* bounds: Update calls explored, clock steps of the strategy clock
MaxUpdates == 3
CooldownTickSeconds == 300
MaxCooldownTicks == 3

MaxOf(a, b) == IF a > b THEN a ELSE b

\* the multiple of the period in UpdateClosePrices
PeriodFactor(kind) == IF kind = "SMA" THEN 2 ELSE 3

\* the minutes ShouldGenerateSignal compares with
CooldownMinutes(kind) ==
    CASE kind = "RSI" -> 10
      [] kind = "SMA" -> 15
      [] kind = "MACD" -> 5

\* while (deque.size() > maxSize) deque.pop_front(), on sizes
Trim(size, maxSize) == IF size > maxSize THEN maxSize ELSE size

\* UpdateClosePrices: every kline is pushed, then the front is popped down to
\* max(period * factor, 200)
UpdateClosePrices(size, n) ==
    Trim(size + n, MaxOf(mPeriod * PeriodFactor(strategyKind), MinClosePrices))

\* UpdateRSIHistory / UpdateSMAHistory / UpdateMACDHistory
UpdateIndicatorHistory(size) == Trim(size + 1, MaxIndicatorHistory)

HasSufficientData(size) ==
    CASE strategyKind = "RSI" -> size >= mPeriod + 1
      [] strategyKind = "SMA" -> size >= mPeriod
      [] strategyKind = "MACD" -> size >= mPeriod + MACDSignalPeriod

\* ShouldGenerateSignal: only the last entry of mSignalHistory is looked at
ShouldGenerateSignal(signalType) ==
    ~ /\ mSignalHistory # <<>>
      /\ mSignalHistory[Len(mSignalHistory)].mType = signalType
      /\ (now - mSignalHistory[Len(mSignalHistory)].mTimestamp) \div SecondsPerMinute
             < CooldownMinutes(strategyKind)

\* AddSignalToHistory: push_back, then pop_front down to 100 entries
AddSignalToHistory(signalType) ==
    LET pushed == Append(mSignalHistory, [mType |-> signalType, mTimestamp |-> now])
    IN  IF Len(pushed) > MaxSignalHistory
        THEN SubSeq(pushed, Len(pushed) - MaxSignalHistory + 1, Len(pushed))
        ELSE pushed

\* Configure's validation of the period; it runs after the assignment
ConfigureThrows(period) ==
    CASE strategyKind = "RSI" -> period < 2 \/ period > 50
      [] strategyKind = "SMA" -> FALSE
      [] strategyKind = "MACD" -> period <= 0 \/ period > 100

\* Deserialize: the entries of "history" replace the indicator history as they are
DeserializedHistory(items) == items

\* what Serialize and Deserialize read and write of an instance
InstanceState ==
    [mPeriod |-> mPeriod, mCurrentValues |-> mCurrentValues,
     mIndicatorHistory |-> mIndicatorHistory]

\* default-constructed current values
NoValues == [mValue |-> 0, mIsValid |-> FALSE]

FreshInstance ==
    [mPeriod |-> DefaultPeriod, mCurrentValues |-> NoValues, mIndicatorHistory |-> 0]

MinOf(a, b) == IF a < b THEN a ELSE b

\* Serialize: the configuration, the current value (CSMAStrategy writes none)
\* and the last 100 entries of the indicator history
Serialize(st) ==
    [config |-> st.mPeriod,
     current |-> IF strategyKind = "SMA" THEN NoCurrent ELSE st.mCurrentValues.mValue,
     history |-> MinOf(SerializedHistoryMax, st.mIndicatorHistory),
     badEntry |-> 0]

\* the JSON documents handed to Deserialize: badEntry is the index of a history
\* entry with a missing or mistyped field, 0 when every entry is well formed
SnapshotData ==
    {d \in [config : ConfigPeriods \cup {NoConfig},
            current : IndicatorValues \cup {NoCurrent},
            history : HistoryItems,
            badEntry : {0, 1}] : d.badEntry = 0 \/ d.badEntry <= d.history}

\* Deserialize throws: the embedded Configure rejects the period, or reading a
\* history entry fails
DeserializeThrows(data) ==
    \/ data.config # NoConfig /\ ConfigureThrows(data.config)
    \/ data.history # NoHistory /\ data.badEntry # 0

\* Deserialize, statement by statement: Configure assigns the period before it
\* validates it; the current value is stored and marked valid (CSMAStrategy
\* reads none); the history is cleared and the entries are pushed one by one,
\* up to the first one that cannot be read.  Whatever was stored before a
\* throw stays.
Deserialized(st, data) ==
    LET configured == IF data.config # NoConfig
                      THEN [st EXCEPT !.mPeriod = data.config]
                      ELSE st
        withCurrent == IF data.current # NoCurrent /\ strategyKind # "SMA"
                       THEN [configured EXCEPT
                                 !.mCurrentValues = [mValue |-> data.current,
                                                     mIsValid |-> TRUE]]
                       ELSE configured
    IN  IF data.config # NoConfig /\ ConfigureThrows(data.config)
        THEN configured
        ELSE IF data.history = NoHistory
             THEN withCurrent
             ELSE [withCurrent EXCEPT
                       !.mIndicatorHistory = IF data.badEntry # 0
                                             THEN data.badEntry - 1
                                             ELSE DeserializedHistory(data.history)]

\* Update.  No klines, or a strategy that is not initialized: nothing happens.  Otherwise the close prices are stored;
\* with enough data the current values are computed, and when they are valid
\* the indicator history grows by one; a signal type other than NONE that
\* passes ShouldGenerateSignal is emitted and recorded.  CSMAStrategy::Update
\* locks mDataMutex a second time on its own thread in UpdateTrendAnalysis: the
\* call may never return.
StrategyUpdate ==
    /\ UNCHANGED <<analysis, backtester, objectVars, engineVars, riskVars, mIsInitialized>>
    /\ ~strategyBlocked
    /\ updates < MaxUpdates
    /\ updates' = updates + 1
    /\ lastOutcome' = "returned"
    /\ UNCHANGED <<strategyKind, mPeriod, snapshot, copy>>
    /\ \E n \in KlineCounts :
           IF \/ n = 0
              \/ ~mIsInitialized
              \/ ~HasSufficientData(UpdateClosePrices(mClosePrices, n))
           THEN /\ mClosePrices' = IF n = 0 \/ ~mIsInitialized THEN mClosePrices
                                   ELSE UpdateClosePrices(mClosePrices, n)
                /\ UNCHANGED <<mIndicatorHistory, mSignalHistory, strategyBlocked,
                               lastEmission, mCurrentValues>>
           ELSE /\ mClosePrices' = UpdateClosePrices(mClosePrices, n)
                /\ \E value \in IndicatorValues :
                       \/ /\ mCurrentValues' = [mValue |-> value, mIsValid |-> FALSE]
                          /\ UNCHANGED <<mIndicatorHistory, mSignalHistory,
                                         strategyBlocked, lastEmission>>
                       \/ /\ mCurrentValues' = [mValue |-> value, mIsValid |-> TRUE]
                          /\ mIndicatorHistory' = UpdateIndicatorHistory(mIndicatorHistory)
                          /\ \/ /\ strategyKind = "SMA"
                                /\ strategyBlocked' = TRUE
                                /\ UNCHANGED <<mSignalHistory, lastEmission>>
                             \/ /\ UNCHANGED strategyBlocked
                                /\ \E signalType \in SignalTypes \cup {NoSignal} :
                                       IF signalType # NoSignal
                                          /\ ShouldGenerateSignal(signalType)
                                       THEN /\ mSignalHistory' =
                                                   AddSignalToHistory(signalType)
                                            /\ lastEmission' =
                                                   [lastEmission EXCEPT
                                                        ![signalType] = now]
                                       ELSE UNCHANGED <<mSignalHistory, lastEmission>>

\* Configure: the period is assigned first and validated afterwards, so it is
\* stored whether or not the call throws; no buffer is touched.
StrategyConfigure ==
    /\ UNCHANGED <<analysis, backtester, objectVars, engineVars, riskVars, mIsInitialized>>
    /\ ~strategyBlocked
    /\ \E period \in ConfigPeriods :
           /\ mPeriod' = period
           /\ lastOutcome' = IF ConfigureThrows(period) THEN "configure threw" ELSE "returned"
    /\ UNCHANGED <<strategyKind, mClosePrices, mIndicatorHistory, mSignalHistory,
                   strategyBlocked, lastEmission, updates, mCurrentValues, snapshot, copy>>

\* Reset: the configuration is kept, every buffer is cleared.
StrategyReset ==
    /\ UNCHANGED <<analysis, backtester, objectVars, engineVars, riskVars, mIsInitialized>>
    /\ ~strategyBlocked
    /\ mClosePrices' = 0
    /\ mIndicatorHistory' = 0
    /\ mSignalHistory' = <<>>
    /\ mCurrentValues' = NoValues
    /\ lastEmission' = [k \in SignalTypes |-> NoTime]
    /\ lastOutcome' = "returned"
    /\ UNCHANGED <<strategyKind, mPeriod, strategyBlocked, updates, snapshot, copy>>

\* the callers of Deserialize: the strategy's user, LoadStrategyState (which
\* first reads the file) and ImportStrategies (which catches what Deserialize
\* throws and writes it to std::cerr)
DeserializeCallers == {"Deserialize", "LoadStrategyState", "ImportStrategies"}

\* Deserialize, called directly or through the engine.  With a "config" key it
\* calls Configure while holding mDataMutex, which Configure locks again: the
\* thread may block for ever, or the call goes through.  An unreadable file
\* makes LoadStrategyState throw before Deserialize is called.
StrategyDeserialize ==
    /\ UNCHANGED <<analysis, backtester, objectVars, engineVars, riskVars, mIsInitialized>>
    /\ ~strategyBlocked
    /\ mStrategiesMutex = NoThread
    /\ UNCHANGED <<strategyKind, mClosePrices, mSignalHistory, lastEmission, updates,
                   snapshot, copy>>
    /\ \/ /\ lastOutcome' = "threw"
          /\ UNCHANGED <<strategyBlocked, mPeriod, mCurrentValues, mIndicatorHistory>>
       \/ \E data \in SnapshotData :
              \/ /\ data.config # NoConfig
                 /\ strategyBlocked' = TRUE
                 /\ lastOutcome' = "blocked"
                 /\ UNCHANGED <<mPeriod, mCurrentValues, mIndicatorHistory>>
              \/ LET after == Deserialized(InstanceState, data)
                 IN  /\ UNCHANGED strategyBlocked
                     /\ mPeriod' = after.mPeriod
                     /\ mCurrentValues' = after.mCurrentValues
                     /\ mIndicatorHistory' = after.mIndicatorHistory
                     /\ IF DeserializeThrows(data)
                        THEN \E via \in DeserializeCallers :
                                 lastOutcome' = IF via = "ImportStrategies"
                                                THEN "swallowed" ELSE "threw"
                        ELSE lastOutcome' = "returned"

\* Serialize: it holds mDataMutex and calls GetCurrentConfig, which locks it
\* again: the thread may block for ever, or the snapshot is returned.
StrategySerialize ==
    /\ UNCHANGED <<analysis, backtester, objectVars, engineVars, riskVars, mIsInitialized>>
    /\ ~strategyBlocked
    /\ \E relockBlocks \in BOOLEAN :
           IF relockBlocks
           THEN /\ strategyBlocked' = TRUE
                /\ lastOutcome' = "blocked"
                /\ UNCHANGED <<snapshot, copy>>
           ELSE /\ snapshot' = [data |-> Serialize(InstanceState), of |-> InstanceState]
                /\ copy' = NoCopy
                /\ lastOutcome' = "returned"
                /\ UNCHANGED strategyBlocked
    /\ UNCHANGED <<strategyKind, mPeriod, mClosePrices, mIndicatorHistory,
                   mSignalHistory, lastEmission, updates, mCurrentValues>>

\* Deserialize of the snapshot on a fresh instance of the same class
StrategyRestore ==
    /\ UNCHANGED <<analysis, backtester, objectVars, engineVars, riskVars, mIsInitialized>>
    /\ snapshot # NoSnapshot
    /\ copy = NoCopy
    /\ \E relockBlocks \in BOOLEAN :
           copy' = IF relockBlocks
                   THEN BlockedCopy
                   ELSE Deserialized(FreshInstance, snapshot.data)
    /\ UNCHANGED <<strategyKind, mPeriod, mClosePrices, mIndicatorHistory,
                   mSignalHistory, strategyBlocked, lastEmission, updates,
                   mCurrentValues, snapshot, lastOutcome>>

\* five minutes pass
ClockCooldownTick ==
    /\ UNCHANGED <<analysis, backtester, objectVars, engineVars, strategyVars>>
    /\ now < MaxCooldownTicks * CooldownTickSeconds
    /\ now' = now + CooldownTickSeconds
    /\ UNCHANGED riskBook

\* ------------------------------------------------------------------ Start and Stop
\* the registry name under which the strategy instance is registered
TheStrategy == "rsi"

\* the data of the instance that Initialize writes
StrategyData ==
    [mClosePrices |-> mClosePrices, mIndicatorHistory |-> mIndicatorHistory,
     mSignalHistory |-> mSignalHistory, mCurrentValues |-> mCurrentValues,
     lastEmission |-> lastEmission, mIsInitialized |-> mIsInitialized]

SetStrategyData(d) ==
    /\ mClosePrices' = d.mClosePrices
    /\ mIndicatorHistory' = d.mIndicatorHistory
    /\ mSignalHistory' = d.mSignalHistory
    /\ mCurrentValues' = d.mCurrentValues
    /\ lastEmission' = d.lastEmission
    /\ mIsInitialized' = d.mIsInitialized

\* Initialize: returns at once when the flag is set; otherwise clears every
\* buffer and the current values and sets the flag
Initialized(d) ==
    IF d.mIsInitialized
    THEN d
    ELSE [mClosePrices |-> 0, mIndicatorHistory |-> 0, mSignalHistory |-> <<>>,
          mCurrentValues |-> NoValues,
          lastEmission |-> [k \in SignalTypes |-> NoTime],
          mIsInitialized |-> TRUE]

\* CBaseStrategy::Start, Stop, Pause, Resume: the base class keeps the
\* instance's own lifecycle state and none of its data
BaseTransition(d) == d

\* a Start that runs Initialize's clearing whether or not the flag is set
StartAlwaysInitializes(d) ==
    BaseTransition(Initialized([d EXCEPT !.mIsInitialized = FALSE]))

\* Start: Initialize only when the flag is not set, then the base class's Start
Started(d) ==
    BaseTransition(IF ~d.mIsInitialized THEN Initialized(d) ELSE d)

\* RegisterStrategy for the instance: the registry entries, and Initialize
RegisterInstance(t) ==
    /\ RegisterNamed(t, TheStrategy)
    /\ ~strategyBlocked
    /\ SetStrategyData(Initialized(StrategyData))
    /\ lastOutcome' = "registered"
    /\ UNCHANGED <<strategyKind, mPeriod, strategyBlocked, updates, snapshot, copy>>

\* StartStrategy for the instance.  Start has no throwing statement; it locks
\* mDataMutex only inside Initialize.
StartInstance(t) ==
    /\ TheStrategy \in mStrategies
    /\ TransitionEngine(t, TheStrategy, FALSE, ACTIVE)
    /\ stopped' = stopped \ {TheStrategy}
    /\ mIsInitialized \/ ~strategyBlocked
    /\ SetStrategyData(Started(StrategyData))
    /\ lastOutcome' = IF mStrategyStates[TheStrategy] = ACTIVE
                      THEN "start on active" ELSE "started"
    /\ UNCHANGED <<strategyKind, mPeriod, strategyBlocked, updates, snapshot, copy>>

\* StopStrategy for the instance: Stop is the base class's Stop
StopInstance(t) ==
    /\ TheStrategy \in mStrategies
    /\ TransitionEngine(t, TheStrategy, FALSE, INACTIVE)
    /\ stopped' = stopped \cup {TheStrategy}
    /\ SetStrategyData(BaseTransition(StrategyData))
    /\ lastOutcome' = IF mStrategyStates[TheStrategy] = INACTIVE
                      THEN "stop on inactive" ELSE "stopped"
    /\ UNCHANGED <<strategyKind, mPeriod, strategyBlocked, updates, snapshot, copy>>

\* ================================================================== CBackTester
\* Amounts of money are kept in tenths, prices in hundredths and quantities in
\* thousandths; the fee rate is in thousandths, the slippage in hundredths of a
\* percent, a signal's size in percent, a drawdown in thousandths of a percent.
\* Divisions truncate.
BackTestSignalTypes == {"BUY", "SELL", "HOLD", "CLOSE_LONG"}

Kline(openTime, close) == [mOpenTime |-> openTime, mClose |-> close, fields |-> 7]

\* a CSV line with fewer than seven fields
ShortRow(openTime, close) == [mOpenTime |-> openTime, mClose |-> close, fields |-> 5]

\* five candles closing at 100, 100, 110, 110, 100
RisingThenFalling ==
    <<Kline(1, 100), Kline(2, 100), Kline(3, 110), Kline(4, 110), Kline(5, 100)>>

\* the data lines of the CSV files that may be loaded
CsvFiles ==
    {RisingThenFalling,
     <<Kline(2, 110), Kline(1, 100)>>,
     <<ShortRow(1, 100), Kline(2, 100), Kline(3, 110)>>}

\* what the exchange holds, in the order it returns it
ServerKlines ==
    {<<Kline(3, 110), Kline(1, 100), Kline(2, 100)>>,
     <<Kline(1, 110), Kline(2, 100)>>}

FeeRates == {0, 1}
SlippagePercents == {0, 5}
SignalSizes == {50, 100}

\* the object after construction and SetInitialBalance(1000)
NewBackTester ==
    [mInitialBalance |-> 10000, mCurrentBalance |-> 10000, mCurrentPosition |-> 0,
     mPositionValue |-> 0, mTotalTrades |-> 0, mWinningTrades |-> 0,
     mLosingTrades |-> 0, mMaxDrawdown |-> 0, mFeeRate |-> 1, mSlippagePercent |-> 5,
     mStartTimestamp |-> 0, mEndTimestamp |-> 1,
     mHistoricalData |-> <<>>, mTrades |-> <<>>, mEquityCurve |-> EmptyMap,
     mResultAvailable |-> FALSE, mWinRate |-> 0,
     loaded |-> "none", running |-> FALSE, i |-> 0, peakEquity |-> 0, signals |-> <<>>]

\* ExecuteTrade's price: the close with the slippage applied
TradePrice(b, type, kline) ==
    IF type = "BUY"
    THEN (kline.mClose * 100 * (10000 + b.mSlippagePercent)) \div 10000
    ELSE (kline.mClose * 100 * 10000) \div (10000 + b.mSlippagePercent)

\* the BUY branch of ExecuteTrade
OpenLong(b, signal, kline) ==
    LET currentPrice == TradePrice(b, signal.mType, kline)
        cost == (b.mCurrentBalance * signal.mSize) \div 100
        fee == (cost * b.mFeeRate) \div 1000
        netCost == cost + fee
        quantity == (cost * 10000) \div currentPrice
    IN  IF netCost <= b.mCurrentBalance
        THEN [b EXCEPT !.mCurrentPosition = quantity,
                       !.mCurrentBalance = @ - netCost,
                       !.mPositionValue = cost,
                       !.mTrades = Append(@, [mTimestamp |-> kline.mOpenTime,
                                              mType |-> "BUY", mPrice |-> currentPrice,
                                              mQuantity |-> quantity, mPnl |-> -fee,
                                              mBalance |-> b.mCurrentBalance - netCost]),
                       !.mTotalTrades = @ + 1]
        ELSE b

\* the SELL branch of ExecuteTrade
CloseLong(b, signal, kline) ==
    LET currentPrice == TradePrice(b, signal.mType, kline)
        proceeds == (b.mCurrentPosition * currentPrice) \div 10000
        fee == (proceeds * b.mFeeRate) \div 1000
        netProceeds == proceeds - fee
        pnl == netProceeds - b.mPositionValue
    IN  [b EXCEPT !.mCurrentBalance = @ + netProceeds,
                  !.mTrades = Append(@, [mTimestamp |-> kline.mOpenTime,
                                         mType |-> "SELL", mPrice |-> currentPrice,
                                         mQuantity |-> b.mCurrentPosition, mPnl |-> pnl,
                                         mBalance |-> b.mCurrentBalance + netProceeds]),
                  !.mTotalTrades = @ + 1,
                  !.mWinningTrades = IF pnl > 0 THEN @ + 1 ELSE @,
                  !.mLosingTrades = IF pnl > 0 THEN @ ELSE @ + 1,
                  !.mCurrentPosition = 0,
                  !.mPositionValue = 0]

\* an ExecuteTrade that opens a position on every BUY
ExecuteTradeUnguarded(b, signal, kline) ==
    IF signal.mType = "BUY"
    THEN OpenLong(b, signal, kline)
    ELSE IF signal.mType = "SELL" /\ b.mCurrentPosition > 0
    THEN CloseLong(b, signal, kline)
    ELSE b

\* ExecuteTrade: BUY opens a long position when none is held, SELL closes the
\* one that is held, anything else does nothing
ExecuteTrade(b, signal, kline) ==
    IF signal.mType = "BUY" /\ b.mCurrentPosition = 0
    THEN OpenLong(b, signal, kline)
    ELSE IF signal.mType = "SELL" /\ b.mCurrentPosition > 0
    THEN CloseLong(b, signal, kline)
    ELSE b

\* std::sort by mOpenTime
RECURSIVE SortByOpenTime(_)
SortByOpenTime(klines) ==
    IF klines = <<>> THEN <<>>
    ELSE LET least == CHOOSE k \in 1..Len(klines) :
                          \A j \in 1..Len(klines) : klines[k].mOpenTime <= klines[j].mOpenTime
         IN  <<klines[least]>> \o
             SortByOpenTime([j \in 1..(Len(klines) - 1) |->
                                 IF j < least THEN klines[j] ELSE klines[j + 1]])

\* GetKlines: what the exchange holds from startTime on
GetKlines(server, startTime) == SelectSeq(server, LAMBDA k : k.mOpenTime >= startTime)

\* the paging loop of LoadHistoricalDataFromAPI: every page is filtered to the
\* time range and appended; the next page starts after the close time of the
\* page's last candle (a candle's close time is its open time here)
RECURSIVE FetchPages(_, _, _, _)
FetchPages(b, server, currentTime, fetched) ==
    IF currentTime >= b.mEndTimestamp * 1000 \/ GetKlines(server, currentTime) = <<>>
    THEN fetched
    ELSE LET klines == GetKlines(server, currentTime) IN
         FetchPages(b, server, klines[Len(klines)].mOpenTime + 1,
                    fetched \o SelectSeq(klines,
                                         LAMBDA k : /\ k.mOpenTime >= b.mStartTimestamp * 1000
                                                    /\ k.mOpenTime <= b.mEndTimestamp * 1000))

BackTestUnchanged == UNCHANGED <<engineVars, riskVars, strategyVars, analysis, objectVars>>

SetFeeRate ==
    /\ BackTestUnchanged
    /\ ~backtester.running
    /\ \E feeRate \in FeeRates : backtester' = [backtester EXCEPT !.mFeeRate = feeRate]

SetSlippageModel ==
    /\ BackTestUnchanged
    /\ ~backtester.running
    /\ \E slippagePercent \in SlippagePercents :
           backtester' = [backtester EXCEPT !.mSlippagePercent = slippagePercent]

\* LoadHistoricalData: the lines with at least seven fields, in file order
LoadHistoricalData ==
    /\ BackTestUnchanged
    /\ ~backtester.running
    /\ \E csvFile \in CsvFiles :
           backtester' = [backtester EXCEPT
                              !.mHistoricalData = SelectSeq(csvFile, LAMBDA k : k.fields >= 7),
                              !.loaded = "csv"]

\* LoadHistoricalDataFromAPI: the pages, then the sort
LoadHistoricalDataFromAPI ==
    /\ BackTestUnchanged
    /\ ~backtester.running
    /\ \E server \in ServerKlines :
           backtester' = [backtester EXCEPT
                              !.mHistoricalData =
                                  SortByOpenTime(FetchPages(backtester, server,
                                                            backtester.mStartTimestamp * 1000,
                                                            <<>>)),
                              !.loaded = "api"]

\* Run, up to its loop: no data throws; otherwise Reset and the cleared curves
Run ==
    /\ BackTestUnchanged
    /\ ~backtester.running
    /\ backtester.mHistoricalData # <<>>
    /\ backtester' = [backtester EXCEPT
                          !.mCurrentBalance = backtester.mInitialBalance,
                          !.mCurrentPosition = 0, !.mPositionValue = 0,
                          !.mTotalTrades = 0, !.mWinningTrades = 0, !.mLosingTrades = 0,
                          !.mMaxDrawdown = 0, !.mResultAvailable = FALSE, !.mWinRate = 0,
                          !.mTrades = <<>>, !.mEquityCurve = EmptyMap,
                          !.peakEquity = backtester.mInitialBalance,
                          !.running = TRUE, !.i = 0, !.signals = <<>>]

\* the candle's part of Run's loop, after the trade: equity, peak, drawdown
AfterCandle(b, kline) ==
    LET equity == b.mCurrentBalance + (b.mCurrentPosition * kline.mClose) \div 100
        peak == IF equity > b.peakEquity THEN equity ELSE b.peakEquity
        drawdown == ((peak - equity) * 100000) \div peak
    IN  [b EXCEPT !.mEquityCurve = Put(@, kline.mOpenTime, equity),
                  !.peakEquity = peak,
                  !.mMaxDrawdown = IF drawdown > @ THEN drawdown ELSE @]

\* Run, one turn of its loop: the strategy's signal for the candle, the trade
\* when the signal is not HOLD, the curves
RunCandle ==
    /\ BackTestUnchanged
    /\ backtester.running
    /\ backtester.i < Len(backtester.mHistoricalData)
    /\ \E type \in BackTestSignalTypes :
       \E size \in IF type = "BUY" THEN SignalSizes ELSE {100} :
           LET kline == backtester.mHistoricalData[backtester.i + 1]
               signal == [mType |-> type, mSize |-> size]
               traded == IF type # "HOLD" THEN ExecuteTrade(backtester, signal, kline)
                         ELSE backtester
           IN  backtester' = [AfterCandle(traded, kline) EXCEPT
                                  !.i = @ + 1, !.signals = Append(@, type)]

\* Run, after its loop: the result
RunFinish ==
    /\ BackTestUnchanged
    /\ backtester.running
    /\ backtester.i = Len(backtester.mHistoricalData)
    /\ backtester' = [backtester EXCEPT
                          !.running = FALSE, !.mResultAvailable = TRUE,
                          !.mWinRate = IF backtester.mTotalTrades > 0
                                       THEN (backtester.mWinningTrades * 100)
                                                \div backtester.mTotalTrades
                                       ELSE 0]

\* ================================================================== signal analysis
AnalysisUnchanged == UNCHANGED <<engineVars, riskVars, strategyVars, backtester, objectVars>>

NoClassification == [by |-> "none"]

\* ------------------------------------------------------------------ CRSIStrategy
\* the RSI values an Update may compute
RSIValues == {15, 25, 45, 75}

\* SRSIValues()
DefaultRSIValues == [mRSI |-> 50, mRSIChange |-> 0, mIsValid |-> FALSE]

\* the arguments of a direct call of AnalyzeRSISignal
RSIArguments == [mRSI : {25, 45}, mRSIChange : {-7, 0}, mIsValid : {TRUE}]

\* the analysis state of a CRSIStrategy after construction, default parameters
NewRSIAnalysis ==
    [mCurrentRSIValues |-> DefaultRSIValues, mPreviousRSIValues |-> DefaultRSIValues,
     mCurrentZone |-> "NEUTRAL_LOW", mPreviousZone |-> "NEUTRAL_LOW",
     mRSIHistory |-> <<>>, mDivergenceDetectionEnabled |-> TRUE,
     classified |-> NoClassification]

DetermineRSIZone(rsi) ==
    IF rsi <= 20 THEN "EXTREME_OVERSOLD"
    ELSE IF rsi <= 30 THEN "OVERSOLD"
    ELSE IF rsi < 50 THEN "NEUTRAL_LOW"
    ELSE IF rsi < 70 THEN "NEUTRAL_HIGH"
    ELSE IF rsi < 80 THEN "OVERBOUGHT"
    ELSE "EXTREME_OVERBOUGHT"

IsValidRSIValues(values) == values.mIsValid /\ values.mRSI >= 0 /\ values.mRSI <= 100

\* CalculateRSIValues is handed mCurrentRSIValues itself as its output
\* argument: mPreviousRSI is read from it after mRSI was written to it
CalculateRSIValues(rsi) ==
    [mRSI |-> rsi, mRSIChange |-> rsi - rsi, mIsValid |-> TRUE]

\* DetectMomentumSignal, with mMinRSIChange = 5
DetectMomentumSignal(current, previous) ==
    IF /\ current.mRSIChange > 5
       /\ current.mRSIChange > previous.mRSIChange
       /\ current.mRSI > 50
    THEN "MOMENTUM_BULLISH"
    ELSE IF /\ current.mRSIChange < -5
            /\ current.mRSIChange < previous.mRSIChange
            /\ current.mRSI < 50
    THEN "MOMENTUM_BEARISH"
    ELSE "NONE"

\* IsRSIReversing(3) on the members of strategy state a
IsRSIReversing(a) ==
    LET h == a.mRSIHistory
        n == Len(h)
        currentChange == a.mCurrentRSIValues.mRSIChange
    IN  /\ n >= 4
        /\ \/ (\A j \in (n - 2)..(n - 1) : h[j + 1] > h[j]) /\ currentChange < 0
           \/ (\A j \in (n - 2)..(n - 1) : h[j + 1] < h[j]) /\ currentChange > 0

DetectZoneTransition(a, currentZone, previousZone) ==
    IF /\ currentZone = "OVERSOLD"
       /\ previousZone \notin {"OVERSOLD", "EXTREME_OVERSOLD"}
    THEN "BUY_OVERSOLD"
    ELSE IF /\ currentZone = "OVERBOUGHT"
            /\ previousZone \notin {"OVERBOUGHT", "EXTREME_OVERBOUGHT"}
    THEN "SELL_OVERBOUGHT"
    ELSE IF /\ previousZone \in {"OVERSOLD", "EXTREME_OVERSOLD"}
            /\ currentZone \in {"NEUTRAL_LOW", "NEUTRAL_HIGH"}
    THEN "BUY_OVERSOLD_EXIT"
    ELSE IF /\ previousZone \in {"OVERBOUGHT", "EXTREME_OVERBOUGHT"}
            /\ currentZone \in {"NEUTRAL_HIGH", "NEUTRAL_LOW"}
    THEN "SELL_OVERBOUGHT_EXIT"
    ELSE IF currentZone = "EXTREME_OVERSOLD" /\ IsRSIReversing(a)
    THEN "EXTREME_REVERSAL_BUY"
    ELSE IF currentZone = "EXTREME_OVERBOUGHT" /\ IsRSIReversing(a)
    THEN "EXTREME_REVERSAL_SELL"
    ELSE "NONE"

\* AnalyzeRSISignal: the momentum signal when there is one, else the zone
\* transition
AnalyzeRSISignal(a, current, previous) ==
    IF ~IsValidRSIValues(current) \/ ~IsValidRSIValues(previous)
    THEN "NONE"
    ELSE IF DetectMomentumSignal(current, previous) # "NONE"
    THEN DetectMomentumSignal(current, previous)
    ELSE DetectZoneTransition(a, DetermineRSIZone(current.mRSI),
                              DetermineRSIZone(previous.mRSI))

\* the last four entries of the history are all that IsRSIReversing reads
LastFour(h) == IF Len(h) > 4 THEN SubSeq(h, Len(h) - 3, Len(h)) ELSE h

\* Update with enough data, from the saving of the previous values on: the
\* new values, the zone, the history, then AnalyzeRSISignal, then the zone
\* transition of the two stored zones, then the divergence when it is enabled
RSIUpdate ==
    /\ AnalysisUnchanged
    /\ \E rsi \in RSIValues, divergence \in {"NONE", "DIVERGENCE_BULLISH", "DIVERGENCE_BEARISH"} :
           LET values == CalculateRSIValues(rsi)
               a == [analysis EXCEPT
                         !.mPreviousRSIValues = analysis.mCurrentRSIValues,
                         !.mPreviousZone = analysis.mCurrentZone,
                         !.mCurrentRSIValues = values,
                         !.mCurrentZone = DetermineRSIZone(rsi),
                         !.mRSIHistory = LastFour(Append(@, rsi))]
               first == AnalyzeRSISignal(a, a.mCurrentRSIValues, a.mPreviousRSIValues)
               second == IF first = "NONE"
                         THEN DetectZoneTransition(a, a.mCurrentZone, a.mPreviousZone)
                         ELSE first
               third == IF second = "NONE" /\ a.mDivergenceDetectionEnabled
                        THEN divergence ELSE second
           IN  /\ second = "NONE" \/ divergence = "NONE"
               /\ analysis' = [a EXCEPT
                                   !.classified =
                                       [by |-> "Update",
                                        current |-> a.mCurrentRSIValues,
                                        previous |-> a.mPreviousRSIValues,
                                        signalType |-> third]]

\* a call of the public AnalyzeRSISignal with values of the caller's
RSIAnalyzeCall ==
    /\ AnalysisUnchanged
    /\ \E current \in RSIArguments, previous \in RSIArguments :
           analysis' = [analysis EXCEPT
                            !.classified =
                                [by |-> "AnalyzeRSISignal",
                                 current |-> current, previous |-> previous,
                                 signalType |-> AnalyzeRSISignal(analysis, current,
                                                                 previous)]]

\* ------------------------------------------------------------------ CMACDStrategy
\* the MACD and signal-line values an Update may compute
MACDLines == {<<-1, 0>>, <<1, 0>>, <<0, -1>>, <<0, 0>>}

\* a key the persisted data does not hold
NoValue == <<>>

\* what the persisted data may hold under currentMACD, currentSignal and
\* currentHistogram: nothing, or one number
RestoredData == {<<NoValue, NoValue, NoValue>>, <<NoValue, NoValue, <<1>>>>,
                 <<<<1>>, <<0>>, <<-1>>>>, <<<<-1>>, <<0>>, <<-1>>>>}

\* std::abs
Abs(x) == IF x < 0 THEN -x ELSE x

\* the number of snapshots IsTrendConfirmed looks at
TrendConfirmationPeriods == 3

\* SMACDValues()
DefaultMACDValues ==
    [mMACD |-> 0, mSignal |-> 0, mHistogram |-> 0, mHistogramChange |-> 0,
     mIsValid |-> FALSE]

\* the analysis state of a CMACDStrategy after Initialize; the three switches
\* come from the parameters
NewMACDAnalysis(histogramAnalysis, zeroLineCross, divergenceDetection) ==
    [mCurrentMACDValues |-> DefaultMACDValues,
     mPreviousMACDValues |-> DefaultMACDValues,
     mMACDHistory |-> <<>>,
     mHistogramAnalysisEnabled |-> histogramAnalysis,
     mZeroLineCrossEnabled |-> zeroLineCross,
     mDivergenceDetectionEnabled |-> divergenceDetection,
     mMinHistogramChange |-> 1,
     classified |-> NoClassification]

\* values that are numbers are finite
IsValidMACDValues(values) == values.mIsValid

\* CalculateMACDValues is handed mCurrentMACDValues itself as its output
\* argument: mPreviousHistogram is read from it after mHistogram was written
CalculateMACDValues(macd, signalLine) ==
    [mMACD |-> macd, mSignal |-> signalLine, mHistogram |-> macd - signalLine,
     mHistogramChange |-> (macd - signalLine) - (macd - signalLine),
     mIsValid |-> TRUE]

DetermineMACDTrend(values) ==
    IF ~values.mIsValid THEN "NEUTRAL"
    ELSE IF values.mMACD > values.mSignal /\ values.mMACD > 0 THEN "STRONG_BULLISH"
    ELSE IF values.mMACD > values.mSignal /\ values.mMACD <= 0 THEN "BULLISH"
    ELSE IF values.mMACD < values.mSignal /\ values.mMACD < 0 THEN "STRONG_BEARISH"
    ELSE IF values.mMACD < values.mSignal /\ values.mMACD >= 0 THEN "BEARISH"
    ELSE "NEUTRAL"

IsTrendConfirmed(a, trend) ==
    LET h == a.mMACDHistory
        n == Len(h)
    IN  /\ n >= TrendConfirmationPeriods
        /\ Cardinality({j \in (n - TrendConfirmationPeriods + 1)..n :
                            DetermineMACDTrend(h[j]) = trend})
               >= (TrendConfirmationPeriods * 2) \div 3

DetectCrossoverSignals(a, current, previous) ==
    IF previous.mMACD <= previous.mSignal /\ current.mMACD > current.mSignal
    THEN "BULLISH_CROSSOVER"
    ELSE IF previous.mMACD >= previous.mSignal /\ current.mMACD < current.mSignal
    THEN "BEARISH_CROSSOVER"
    ELSE IF a.mZeroLineCrossEnabled /\ previous.mMACD <= 0 /\ current.mMACD > 0
    THEN "ZERO_LINE_CROSS_UP"
    ELSE IF a.mZeroLineCrossEnabled /\ previous.mMACD >= 0 /\ current.mMACD < 0
    THEN "ZERO_LINE_CROSS_DOWN"
    ELSE "NONE"

DetectMomentumSignals(a, current, previous) ==
    IF /\ current.mMACD > previous.mMACD
       /\ current.mHistogram > previous.mHistogram
       /\ current.mHistogramChange > 0
    THEN "MOMENTUM_ACCELERATION_UP"
    ELSE IF /\ current.mMACD < previous.mMACD
            /\ current.mHistogram < previous.mHistogram
            /\ current.mHistogramChange < 0
    THEN "MOMENTUM_ACCELERATION_DOWN"
    ELSE IF IsTrendConfirmed(a, "BULLISH") THEN "TREND_CONFIRMATION_BULLISH"
    ELSE IF IsTrendConfirmed(a, "BEARISH") THEN "TREND_CONFIRMATION_BEARISH"
    ELSE "NONE"

AnalyzeHistogram(a, current, previous) ==
    IF previous.mHistogram <= 0 /\ current.mHistogram > 0
    THEN "HISTOGRAM_TURN_POSITIVE"
    ELSE IF previous.mHistogram >= 0 /\ current.mHistogram < 0
    THEN "HISTOGRAM_TURN_NEGATIVE"
    ELSE IF /\ Abs(current.mHistogramChange) > a.mMinHistogramChange
            /\ current.mHistogramChange > 0 /\ current.mHistogram > 0
    THEN "HISTOGRAM_ACCELERATING_UP"
    ELSE IF /\ Abs(current.mHistogramChange) > a.mMinHistogramChange
            /\ current.mHistogramChange < 0 /\ current.mHistogram < 0
    THEN "HISTOGRAM_ACCELERATING_DOWN"
    ELSE "NONE"

AnalyzeMACDSignal(a, current, previous) ==
    IF ~IsValidMACDValues(current) \/ ~IsValidMACDValues(previous)
    THEN "NONE"
    ELSE IF DetectCrossoverSignals(a, current, previous) # "NONE"
    THEN DetectCrossoverSignals(a, current, previous)
    ELSE DetectMomentumSignals(a, current, previous)

\* the last TrendConfirmationPeriods entries of the history are all that
\* IsTrendConfirmed reads
LastPeriods(h) ==
    IF Len(h) > TrendConfirmationPeriods
    THEN SubSeq(h, Len(h) - TrendConfirmationPeriods + 1, Len(h))
    ELSE h

\* Update with enough data, from the saving of the previous values on: the
\* new values, the history, then AnalyzeMACDSignal, then the crossovers once
\* more, then the histogram when its analysis is enabled, then the divergence
MACDUpdate ==
    /\ AnalysisUnchanged
    /\ \E lines \in MACDLines,
          divergence \in {"NONE", "DIVERGENCE_BULLISH", "DIVERGENCE_BEARISH"} :
           LET values == CalculateMACDValues(lines[1], lines[2])
               a == [analysis EXCEPT
                         !.mPreviousMACDValues = analysis.mCurrentMACDValues,
                         !.mCurrentMACDValues = values,
                         !.mMACDHistory = LastPeriods(Append(@, values))]
               current == a.mCurrentMACDValues
               previous == a.mPreviousMACDValues
               first == AnalyzeMACDSignal(a, current, previous)
               second == IF first = "NONE"
                         THEN DetectCrossoverSignals(a, current, previous)
                         ELSE first
               third == IF second = "NONE" /\ a.mHistogramAnalysisEnabled
                        THEN AnalyzeHistogram(a, current, previous)
                        ELSE second
               fourth == IF third = "NONE" /\ a.mDivergenceDetectionEnabled
                         THEN divergence ELSE third
           IN  /\ (third = "NONE" /\ a.mDivergenceDetectionEnabled)
                      \/ divergence = "NONE"
               /\ analysis' = [a EXCEPT
                                   !.classified =
                                       [by |-> "Update",
                                        current |-> current,
                                        previous |-> previous,
                                        histogramAnalysis |-> a.mHistogramAnalysisEnabled,
                                        signalType |-> fourth]]

\* Deserialize, the current values: each of the three keys is taken when the
\* data holds it, and the histogram key marks the values valid
MACDDeserialize ==
    /\ AnalysisUnchanged
    /\ \E data \in RestoredData :
           LET macd == data[1]
               signalLine == data[2]
               histogram == data[3]
           IN  analysis' = [analysis EXCEPT
               !.mCurrentMACDValues =
                   [@ EXCEPT
                        !.mMACD = IF macd = NoValue THEN @ ELSE macd[1],
                        !.mSignal = IF signalLine = NoValue THEN @ ELSE signalLine[1],
                        !.mHistogram = IF histogram = NoValue THEN @ ELSE histogram[1],
                        !.mIsValid = IF histogram = NoValue THEN @ ELSE TRUE]]

SetHistogramAnalysis ==
    /\ AnalysisUnchanged
    /\ \E enable \in BOOLEAN :
           analysis' = [analysis EXCEPT !.mHistogramAnalysisEnabled = enable]

SetZeroLineCrossDetection ==
    /\ AnalysisUnchanged
    /\ \E enable \in BOOLEAN :
           analysis' = [analysis EXCEPT !.mZeroLineCrossEnabled = enable]

\* ------------------------------------------------------------------ CSMAStrategy
\* the fast, slow and long averages an Update may compute
SMALines == {<<3, 2, 1>>, <<3, 2, 2>>, <<1, 2, 3>>, <<2, 2, 2>>}

\* the slopes of the fast average an Update may compute, in thousandths
FastSlopes == {0, 4, 5}

\* SSMAValues(); the spread is in tenths of a percent
DefaultSMAValues ==
    [mFastSMA |-> 0, mSlowSMA |-> 0, mLongSMA |-> 0, mFastSlope |-> 0,
     mSpreadPercent |-> 0, mIsValid |-> FALSE]

\* the analysis state of a CSMAStrategy after construction; mMinSlope is 0.001
NewSMAAnalysis ==
    [mCurrentSMAValues |-> DefaultSMAValues, mPreviousSMAValues |-> DefaultSMAValues,
     mConfiguration |-> "DUAL_MA", mCurrentTrend |-> "SIDEWAYS", mMinSlope |-> 1,
     nearFastSMA |-> FALSE, blocked |-> FALSE, classified |-> NoClassification]

\* CalculateSMAValues with enough prices for the three periods; the slope is
\* the regression slope over the last values, taken as given
CalculateSMAValues(lines, fastSlope) ==
    [mFastSMA |-> lines[1], mSlowSMA |-> lines[2], mLongSMA |-> lines[3],
     mFastSlope |-> fastSlope,
     mSpreadPercent |-> ((lines[1] - lines[2]) * 1000) \div lines[2],
     mIsValid |-> TRUE]

\* mParams.mUseTripleMA is set together with mConfiguration
IsValidSMAValues(a, values) ==
    /\ values.mIsValid
    /\ values.mFastSMA > 0
    /\ values.mSlowSMA > 0
    /\ (a.mConfiguration # "TRIPLE_MA" \/ values.mLongSMA > 0)

\* the thresholds are 0.5 % and 1.0 %
DetermineTrend(a, values) ==
    IF ~IsValidSMAValues(a, values) THEN "SIDEWAYS"
    ELSE IF values.mFastSMA > values.mSlowSMA
    THEN IF Abs(values.mSpreadPercent) > 10 /\ values.mFastSlope > a.mMinSlope
         THEN "STRONG_UPTREND"
         ELSE IF Abs(values.mSpreadPercent) > 5 THEN "WEAK_UPTREND" ELSE "SIDEWAYS"
    ELSE IF Abs(values.mSpreadPercent) > 10 /\ values.mFastSlope < -a.mMinSlope
         THEN "STRONG_DOWNTREND"
         ELSE IF Abs(values.mSpreadPercent) > 5 THEN "WEAK_DOWNTREND" ELSE "SIDEWAYS"

IsGoldenCross(current, previous) ==
    previous.mFastSMA <= previous.mSlowSMA /\ current.mFastSMA > current.mSlowSMA

IsDeathCross(current, previous) ==
    previous.mFastSMA >= previous.mSlowSMA /\ current.mFastSMA < current.mSlowSMA

DetectCrossover(current, previous) ==
    IF IsGoldenCross(current, previous) THEN "GOLDEN_CROSS"
    ELSE IF IsDeathCross(current, previous) THEN "DEATH_CROSS"
    ELSE "NONE"

\* IsTripleAlignment reads the current values of the strategy
IsTripleAlignment(a, bullish) ==
    /\ a.mConfiguration = "TRIPLE_MA"
    /\ IF bullish
       THEN /\ a.mCurrentSMAValues.mFastSMA > a.mCurrentSMAValues.mSlowSMA
            /\ a.mCurrentSMAValues.mSlowSMA > a.mCurrentSMAValues.mLongSMA
       ELSE /\ a.mCurrentSMAValues.mFastSMA < a.mCurrentSMAValues.mSlowSMA
            /\ a.mCurrentSMAValues.mSlowSMA < a.mCurrentSMAValues.mLongSMA

\* nearFastSMA: the last close is within 0.5 % of the fast average
IsPullbackOpportunity(a, bullish) ==
    /\ IF bullish
       THEN /\ a.mCurrentSMAValues.mFastSMA > a.mCurrentSMAValues.mSlowSMA
            /\ a.mCurrentTrend = "STRONG_UPTREND"
       ELSE /\ a.mCurrentSMAValues.mFastSMA < a.mCurrentSMAValues.mSlowSMA
            /\ a.mCurrentTrend = "STRONG_DOWNTREND"
    /\ a.nearFastSMA

DetectTrendSignals(a, current, previous) ==
    IF /\ current.mFastSlope > previous.mFastSlope
       /\ current.mFastSlope > a.mMinSlope * 2
    THEN "TREND_ACCELERATION"
    ELSE IF /\ current.mFastSlope < previous.mFastSlope
            /\ Abs(current.mFastSlope) < a.mMinSlope
    THEN "TREND_DECELERATION"
    ELSE IF IsPullbackOpportunity(a, TRUE) THEN "PULLBACK_BUY"
    ELSE IF IsPullbackOpportunity(a, FALSE) THEN "PULLBACK_SELL"
    ELSE "NONE"

\* both tests of each condition read the same current values
DetectTripleMASignals(a, current, previous) ==
    IF a.mConfiguration # "TRIPLE_MA" THEN "NONE"
    ELSE IF IsTripleAlignment(a, TRUE) /\ ~IsTripleAlignment(a, TRUE)
    THEN "TRIPLE_ALIGNMENT_BULL"
    ELSE IF IsTripleAlignment(a, FALSE) /\ ~IsTripleAlignment(a, FALSE)
    THEN "TRIPLE_ALIGNMENT_BEAR"
    ELSE "NONE"

\* the crossover and the trend rules, which come before the triple rule
EarlierSMARules(a, current, previous) ==
    IF DetectCrossover(current, previous) # "NONE"
    THEN DetectCrossover(current, previous)
    ELSE DetectTrendSignals(a, current, previous)

AnalyzeSMASignal(a, current, previous) ==
    IF ~IsValidSMAValues(a, current) \/ ~IsValidSMAValues(a, previous)
    THEN "NONE"
    ELSE IF EarlierSMARules(a, current, previous) # "NONE"
    THEN EarlierSMARules(a, current, previous)
    ELSE IF a.mConfiguration = "TRIPLE_MA"
    THEN DetectTripleMASignals(a, current, previous)
    ELSE "NONE"

\* Update with enough data, from the saving of the previous values on. The
\* thread holds mDataMutex, and UpdateTrendAnalysis locks it again through
\* GetDynamicSupport: the thread may block there for ever, or go on to the
\* trend and to AnalyzeSMASignal.
SMAUpdate ==
    /\ AnalysisUnchanged
    /\ ~analysis.blocked
    /\ \E lines \in SMALines, fastSlope \in FastSlopes, near \in BOOLEAN,
          relockBlocks \in BOOLEAN :
           LET values == CalculateSMAValues(lines, fastSlope)
               stored == [analysis EXCEPT
                              !.mPreviousSMAValues = analysis.mCurrentSMAValues,
                              !.mCurrentSMAValues = values,
                              !.nearFastSMA = near]
               a == [stored EXCEPT !.mCurrentTrend = DetermineTrend(stored, values)]
               current == a.mCurrentSMAValues
               previous == a.mPreviousSMAValues
           IN  analysis' =
                   IF relockBlocks
                   THEN [a EXCEPT !.blocked = TRUE]
                   ELSE [a EXCEPT
                             !.classified =
                                 [by |-> "Update",
                                  current |-> current,
                                  previous |-> previous,
                                  mConfiguration |-> a.mConfiguration,
                                  valid |-> /\ IsValidSMAValues(a, current)
                                            /\ IsValidSMAValues(a, previous),
                                  earlier |-> EarlierSMARules(a, current, previous),
                                  signalType |-> AnalyzeSMASignal(a, current, previous)]]

SetTripleMAMode ==
    /\ AnalysisUnchanged
    /\ ~analysis.blocked
    /\ \E enable \in BOOLEAN :
           analysis' = [analysis EXCEPT
                            !.mConfiguration = IF enable THEN "TRIPLE_MA" ELSE "DUAL_MA"]

\* ================================================================== specifications
\* the engine and the risk manager after construction: empty maps, no callback,
\* every thread outside any operation; maxPositions is the limit in force
InitEngineAndRiskLimit(maxPositions) ==
    /\ mStrategies = {}
    /\ mStrategyStates = EmptyMap
    /\ mStrategyStats = EmptyMap
    /\ mOpenPositions = EmptyMap
    /\ mPositionToStrategy = EmptyMap
    /\ mStrategyPositions = EmptyMap
    /\ mStrategiesMutex = NoThread
    /\ mPositionsMutex = NoThread
    /\ mCallbacksMutex = NoThread
    /\ mStrategyCallback = FALSE
    /\ mPositionCallback = FALSE
    /\ mErrorCallback = FALSE
    /\ pc = [t \in Threads |-> "idle"]
    /\ arg = [t \in Threads |-> NoArg]
    /\ closedIds = {}
    /\ stopped = {}
    /\ pendingCloses = <<>>
    /\ mDataMutex = [name \in Names |-> NoThread]
    /\ activeStrategies = [t \in Threads |-> NoLoop]
    /\ backtester = NewBackTester
    /\ locks = NoLocks
    /\ strategyObjects = [name \in Names |-> NewStrategyObject]
    /\ riskOpenPositions = EmptyMap
    /\ mSymbolExposure = EmptyMap
    /\ mLastTradeTime = EmptyMap
    /\ mTotalExposure = 0
    /\ mTodayPnL = 0
    /\ mStartOfDay = 0
    /\ mMaxOpenPositions = maxPositions
    /\ mActiveAlerts = <<>>
    /\ riskPositionsMutex = NoThread
    /\ now = 0
    /\ rpc = [t \in Threads |-> "idle"]
    /\ rarg = [t \in Threads |-> NoRArg]

\* the engine and the Risk Manager as constructed
InitEngineAndRisk == InitEngineAndRiskLimit(DefaultMaxOpenPositions)

\* a strategy as construction leaves it, and Initialize after it: default
\* parameters, empty buffers
FreshStrategy ==
    /\ mPeriod = DefaultPeriod
    /\ mClosePrices = 0
    /\ mIndicatorHistory = 0
    /\ mSignalHistory = <<>>
    /\ strategyBlocked = FALSE
    /\ lastEmission = [k \in SignalTypes |-> NoTime]
    /\ updates = 0
    /\ mCurrentValues = NoValues
    /\ snapshot = NoSnapshot
    /\ copy = NoCopy
    /\ lastOutcome = "none"

Init ==
    /\ InitEngineAndRisk
    /\ strategyKind = "RSI"
    /\ FreshStrategy
    /\ mIsInitialized = TRUE
    /\ analysis = NewRSIAnalysis

Next ==
    \/ \E t \in Threads :
        \/ RegisterStrategy(t)
        \/ RemoveStrategy(t)
        \/ StartStrategy(t)
        \/ StopStrategy(t)
        \/ PauseStrategy(t)
        \/ ResumeStrategy(t)
        \/ ResetStrategy(t)
        \/ ExecuteStrategy(t)
        \/ ExecuteAllStrategies(t)
        \/ ExecuteAllLoop(t)
        \/ RegisterInstance(t)
        \/ StartInstance(t)
        \/ StopInstance(t)
        \/ UpdateBegin(t)
        \/ ExecuteUpdate(t)
        \/ ExecuteCatch(t)
        \/ ExecuteReturn(t)
        \/ NotifyError(t)
        \/ NotifyPositionUpdate(t)
        \/ NotifyStrategySignal(t)
        \/ CallbackReturn(t)
        \/ RegisterPosition(t)
        \/ RegisterPosition2(t)
        \/ ClosePosition(t)
        \/ UpdateStrategyStatistics(t)
        \/ OnPositionClosed(t)
        \/ UpdatePosition(t)
        \/ UpdatePosition2(t)
        \/ SetStrategyCallback(t)
        \/ SetPositionCallback(t)
        \/ SetErrorCallback(t)
        \/ CheckPositionAllowed(t)
        \/ CheckMaxOpenPositions(t)
        \/ CheckMaxDailyLoss(t)
        \/ DailyLossReset(t)
        \/ DailyLossEvaluate(t)
        \/ CheckSymbolExposure(t)
        \/ CheckTradeFrequency(t)
        \/ CheckReturn(t)
        \/ RiskRegisterPosition(t)
        \/ RiskRegisterPosition2(t)
        \/ RiskClosePosition(t)
        \/ RiskClosePosition2(t)
        \/ SetMaxOpenPositions(t)
    \/ ClockTick
    \/ ClockNextDay
    \/ StrategyUpdate
    \/ StrategyConfigure
    \/ StrategyReset
    \/ StrategyDeserialize
    \/ StrategySerialize
    \/ StrategyRestore
    \/ ClockCooldownTick
    \/ SetFeeRate
    \/ SetSlippageModel
    \/ LoadHistoricalData
    \/ LoadHistoricalDataFromAPI
    \/ Run
    \/ RunCandle
    \/ RunFinish
    \/ RSIUpdate
    \/ RSIAnalyzeCall
    \/ MACDUpdate
    \/ MACDDeserialize
    \/ SetHistogramAnalysis
    \/ SetZeroLineCrossDetection
    \/ SMAUpdate
    \/ SetTripleMAMode

Spec == Init /\ [][Next]_vars

\* One strategy instance of any of the three classes, freshly constructed,
\* driven by Update, Configure, Reset and Deserialize while time passes.
InitStrategy ==
    /\ InitEngineAndRisk
    /\ strategyKind \in StrategyKinds
    /\ FreshStrategy
    /\ mIsInitialized = TRUE
    /\ analysis = NewRSIAnalysis

NextStrategy ==
    \/ StrategyUpdate
    \/ StrategyConfigure
    \/ StrategyReset
    \/ StrategyDeserialize
    \/ ClockCooldownTick

SpecStrategy == InitStrategy /\ [][NextStrategy]_vars

\* The same instance with its persistence: snapshots are taken and loaded,
\* directly and through the engine; the clock stands still.
NextPersistence ==
    \/ StrategyConfigure
    \/ StrategyReset
    \/ StrategyDeserialize
    \/ StrategySerialize
    \/ StrategyRestore

SpecPersistence == InitStrategy /\ [][NextPersistence]_vars

\* The position book alone: strategies are registered and removed, positions are
\* registered and closed, the position callback may be installed.
NextPositions ==
    \E t \in Threads :
        \/ RegisterStrategy(t)
        \/ RemoveStrategy(t)
        \/ RegisterPosition(t)
        \/ RegisterPosition2(t)
        \/ ClosePosition(t)
        \/ UpdateStrategyStatistics(t)
        \/ OnPositionClosed(t)
        \/ NotifyPositionUpdate(t)
        \/ CallbackReturn(t)
        \/ SetPositionCallback(t)

SpecPositions == Init /\ [][NextPositions]_vars

\* The trade statistics: positions are registered and closed with any pnl, and
\* strategies are reset.
NextStats ==
    \E t \in Threads :
        \/ RegisterStrategy(t)
        \/ RegisterPosition(t)
        \/ RegisterPosition2(t)
        \/ ClosePosition(t)
        \/ UpdateStrategyStatistics(t)
        \/ OnPositionClosed(t)
        \/ NotifyPositionUpdate(t)
        \/ ResetStrategy(t)
        \/ NotifyError(t)

SpecStats == Init /\ [][NextStats]_vars

\* The strategy lifecycle alone: no position is ever registered.
NextLifecycle ==
    \E t \in Threads :
        \/ RegisterStrategy(t)
        \/ RemoveStrategy(t)
        \/ StartStrategy(t)
        \/ StopStrategy(t)
        \/ PauseStrategy(t)
        \/ ResumeStrategy(t)
        \/ ResetStrategy(t)
        \/ ExecuteStrategy(t)
        \/ UpdateBegin(t)
        \/ ExecuteUpdate(t)
        \/ ExecuteCatch(t)
        \/ ExecuteReturn(t)
        \/ NotifyError(t)
        \/ NotifyStrategySignal(t)
        \/ CallbackReturn(t)
        \/ SetStrategyCallback(t)
        \/ SetErrorCallback(t)

SpecLifecycle == Init /\ [][NextLifecycle]_vars

\* The Risk Manager alone: the pre-trade gate, the book of open positions, the
\* position cap and the clock.
NextRisk ==
    \/ \E t \in Threads :
           \/ CheckPositionAllowed(t)
           \/ CheckMaxOpenPositions(t)
           \/ CheckMaxDailyLoss(t)
           \/ DailyLossReset(t)
           \/ DailyLossEvaluate(t)
           \/ CheckSymbolExposure(t)
           \/ CheckTradeFrequency(t)
           \/ CheckReturn(t)
           \/ RiskRegisterPosition(t)
           \/ RiskRegisterPosition2(t)
           \/ RiskClosePosition(t)
           \/ RiskClosePosition2(t)
           \/ SetMaxOpenPositions(t)
    \/ ClockTick
    \/ ClockNextDay

SpecRisk == Init /\ [][NextRisk]_vars

\* The Risk Manager's book alone: positions are registered and closed.
NextRiskBook ==
    \E t \in Threads :
        \/ RiskRegisterPosition(t)
        \/ RiskRegisterPosition2(t)
        \/ RiskClosePosition(t)
        \/ RiskClosePosition2(t)

SpecRiskBook == Init /\ [][NextRiskBook]_vars

\* ================================================================== claims: engine
AllIdle == \A t \in Threads : Idle(t)

\* ids found in any per-strategy id list
ListedIds == UNION {ElemsOf(mStrategyPositions[s]) : s \in DOMAIN mStrategyPositions}

\* C1: a position that was registered and then closed is open while its
\* id->strategy entry exists (between RegisterPosition and ClosePosition), and once
\* ClosePosition has succeeded for it, it appears in none of the three position
\* maps: not in the open positions, not in id->strategy, not in any per-strategy
\* id list, whatever operations ran in between or run afterwards.
C1_ClosedPositionInNoMap ==
    /\ DOMAIN mPositionToStrategy \subseteq DOMAIN mOpenPositions
    /\ \A id \in closedIds :
           /\ id \notin DOMAIN mOpenPositions
           /\ id \notin DOMAIN mPositionToStrategy
           /\ id \notin ListedIds

\* C2: with no operation in progress, for every registered strategy s the list
\* mStrategyPositions[s] holds exactly the ids that mPositionToStrategy maps to s.
C2_ListsMatchIdToStrategy ==
    AllIdle =>
        \A s \in mStrategies :
            ElemsOf(ListOf(s)) =
                {id \in DOMAIN mPositionToStrategy : mPositionToStrategy[id] = s}

\* C3: a position is closed once: after ClosePosition(id) has succeeded, no later
\* operation, another RegisterPosition with the same id included, makes the id
\* open again.
C3_ClosedIdNeverReopens ==
    [][\A id \in closedIds : id \notin DOMAIN mOpenPositions']_vars

\* C6: while a user-supplied signal, position or error callback runs, the thread
\* running it holds neither the registry mutex nor the positions mutex.
C6_CallbackHoldsNoEngineMutex ==
    \A t \in Threads :
        InCallback(t) => (mStrategiesMutex # t /\ mPositionsMutex # t)

\* the lifecycle edges: anything -> ERROR, Stop and Reset -> INACTIVE,
\* INACTIVE -> (INITIALIZING ->) ACTIVE, ACTIVE <-> PAUSED
LifecycleEdge(from, to) ==
    \/ to = ERROR
    \/ to = INACTIVE
    \/ from = INACTIVE /\ to = ACTIVE
    \/ from = ACTIVE /\ to = PAUSED
    \/ from = PAUSED /\ to = ACTIVE

\* C10: the state the engine records for a strategy changes only along the
\* lifecycle edges; in particular it becomes PAUSED only from ACTIVE and
\* PauseStrategy/ResumeStrategy never move it from any other state.
C10_StateChangesAlongEdges ==
    [][\A s \in (DOMAIN mStrategyStates) \cap (DOMAIN mStrategyStates') :
           mStrategyStates[s] # mStrategyStates'[s]
               => LifecycleEdge(mStrategyStates[s], mStrategyStates'[s])]_vars

\* ================================================================== claims: risk manager
RiskAtRest == \A t \in Threads : RiskIdle(t)

\* sum of quantity * entry price over the open positions of ids that are on symbol
RECURSIVE OpenExposure(_, _)
OpenExposure(ids, symbol) ==
    IF ids = {} THEN 0
    ELSE LET id == CHOOSE x \in ids : TRUE
             position == riskOpenPositions[id]
         IN  (IF position.mSymbol = symbol THEN position.mQuantity * position.mEntryPrice
              ELSE 0)
             + OpenExposure(ids \ {id}, symbol)

\* sum of the recorded symbol exposures over the symbols in syms
RECURSIVE RecordedExposure(_)
RecordedExposure(syms) ==
    IF syms = {} THEN 0
    ELSE LET symbol == CHOOSE x \in syms : TRUE
         IN  mSymbolExposure[symbol] + RecordedExposure(syms \ {symbol})

\* C4: with no Risk Manager operation in progress, after any sequence of
\* RegisterPosition and ClosePosition calls, the recorded exposure of every
\* symbol is the sum of quantity * entry price over the positions open on it.
C4_SymbolExposureIsSumOfOpen ==
    RiskAtRest =>
        \A symbol \in Symbols :
            (IF symbol \in DOMAIN mSymbolExposure THEN mSymbolExposure[symbol] ELSE 0)
                = OpenExposure(DOMAIN riskOpenPositions, symbol)

\* C5: whenever no Risk Manager operation is in progress, the recorded symbol
\* exposures add up to the total exposure, after any sequence of successful or
\* failing RegisterPosition and ClosePosition calls.
C5_SymbolExposuresSumToTotal ==
    RiskAtRest => RecordedExposure(DOMAIN mSymbolExposure) = mTotalExposure

\* C5 witness: at rest after registrations on both symbols and a close with a
\* non-zero pnl, both symbol figures being positive
C5_Witness ==
    /\ RiskAtRest
    /\ mTodayPnL # 0
    /\ DOMAIN mSymbolExposure = Symbols
    /\ \A symbol \in Symbols : mSymbolExposure[symbol] > 0
    /\ Cardinality(DOMAIN riskOpenPositions) = 2

\* a thread is between two checks of one CheckPositionAllowed call
BetweenChecks(t) ==
    rpc[t] \in {"CheckMaxDailyLoss", "DailyLossReset", "DailyLossEvaluate",
               "CheckSymbolExposure", "CheckTradeFrequency"}

\* C7: CheckPositionAllowed runs its checks under one continuous hold of the
\* mutex: while a call is between its open-positions-count check and its
\* trade-frequency check, no RegisterPosition or ClosePosition of another
\* thread takes effect on the book.
C7_NoBookChangeBetweenChecks ==
    [][(\E t \in Threads : BetweenChecks(t))
           => UNCHANGED <<riskOpenPositions, mSymbolExposure, mTotalExposure,
                          mLastTradeTime>>]_vars

\* C8: CheckPositionAllowed(symbol, side, qty, price) returns true only if, in
\* the Risk Manager state it returns from: symbol is non-empty, qty > 0 and
\* price > 0; the number of open positions is below the cap; minus today's pnl
\* is below 10% of the balance; the symbol's exposure plus qty * price is at most
\* 20% of the balance; and the symbol was not traded within the last 60 seconds.
C8_TrueOnlyIfAllConditionsHold ==
    [][\A t \in Threads :
           (rpc[t] # "Returned" /\ rpc'[t] = "Returned" /\ rarg'[t].result = "true")
               => LET symbol == rarg[t].symbol
                      exposure == IF symbol \in DOMAIN mSymbolExposure
                                  THEN mSymbolExposure[symbol] ELSE 0
                  IN  /\ symbol # "" /\ rarg[t].quantity > 0 /\ rarg[t].price > 0
                      /\ Cardinality(DOMAIN riskOpenPositions) < mMaxOpenPositions
                      /\ -mTodayPnL * 100 < 10000 * 10
                      /\ (exposure + rarg[t].quantity * rarg[t].price) * 100 <= 10000 * 20
                      /\ symbol \in DOMAIN mLastTradeTime
                             => now - mLastTradeTime[symbol] >= 60]_vars

\* the limits that have an alert kind
AlertKinds == {"MAX_POSITIONS_LIMIT", "DAILY_LOSS_LIMIT", "SYMBOL_EXPOSURE_LIMIT"}

\* C9: when CheckPositionAllowed refuses a trade because a limit is tripped, an
\* alert of the tripped kind has been recorded by the time it returns false.
C9_RefusalRecordsAlert ==
    \A t \in Threads :
        (rpc[t] = "Returned" /\ rarg[t].result = "false" /\ rarg[t].tripped \in AlertKinds)
            => \E i \in 1..Len(mActiveAlerts) : mActiveAlerts[i].mType = rarg[t].tripped

\* ================================================================== claims: error handling
\* C11: when the strategy's own Start, Stop, Pause, Resume or Reset throws inside
\* the engine operation, the engine has recorded ERROR for that strategy when it
\* goes on to the error notification.
C11_LifecycleThrowRecordsError ==
    [][\A t \in Threads :
           (pc[t] = "idle" /\ pc'[t] = "NotifyError")
               => /\ arg'[t].name \in DOMAIN mStrategyStates'
                  /\ mStrategyStates'[arg'[t].name] = ERROR]_vars

\* C12: an ExecuteStrategy call on a registered strategy whose recorded state is
\* not ACTIVE returns HOLD "Strategy is not active" and does not call Update.
C12_NotActiveReturnsHold ==
    [][\A t \in Threads :
           (/\ pc[t] = "idle"
            /\ pc'[t] \in {"Update", "Returned"}
            /\ ~(/\ arg'[t].name \in DOMAIN mStrategyStates
                 /\ mStrategyStates[arg'[t].name] = ACTIVE))
               => (pc'[t] = "Returned" /\ arg'[t].result = "HOLD_NOT_ACTIVE")]_vars

\* C12 witness: a call on a PAUSED strategy has returned the not-active HOLD
C12_Witness ==
    \E t \in Threads :
        /\ pc[t] = "Returned"
        /\ arg[t].result = "HOLD_NOT_ACTIVE"
        /\ arg[t].name \in DOMAIN mStrategyStates
        /\ mStrategyStates[arg[t].name] = PAUSED

\* C13: when Update or the validation throws during ExecuteStrategy, the catch
\* block records ERROR for the strategy and the call then returns the HOLD signal
\* carrying the error; the exception does not reach the caller.
C13_UpdateThrowReturnsErrorHold ==
    [][\A t \in Threads :
           /\ (pc[t] = "ExecuteCatch" /\ pc'[t] # "ExecuteCatch")
                  => /\ pc'[t] = "NotifyError"
                     /\ mStrategyStates'[arg[t].name] = ERROR
                     /\ arg'[t].result = "HOLD_ERROR"
           /\ (arg[t].result = "HOLD_ERROR" /\ pc[t] # "Returned" /\ pc'[t] # pc[t])
                  => /\ pc'[t] \in {"ErrorCallback", "Returned"}
                     /\ arg'[t].result = "HOLD_ERROR"]_vars

\* C13 witness: a call whose Update threw has returned the error HOLD and the
\* strategy is recorded in ERROR
C13_Witness ==
    \E t \in Threads :
        /\ pc[t] = "Returned"
        /\ arg[t].result = "HOLD_ERROR"
        /\ arg[t].name \in DOMAIN mStrategyStates
        /\ mStrategyStates[arg[t].name] = ERROR

\* C14: StopStrategy leaves an Update that is in flight alone, and no
\* ExecuteStrategy call that begins after StopStrategy has returned for a
\* strategy, with no StartStrategy since, calls that strategy's Update.
C14_NoUpdateAfterStop ==
    [][\A t \in Threads :
           /\ (pc[t] = "idle" /\ pc'[t] = "Update") => arg'[t].name \notin stopped
           /\ (pc[t] = "Update" /\ pc'[t] # "Update") => pc'[t] = "InUpdate"
           /\ (pc[t] = "InUpdate" /\ pc'[t] # "InUpdate")
                  => pc'[t] \in {"ExecuteCatch", "NotifyStrategySignal"}]_vars

\* ================================================================== claims: concurrency
\* C15: two Update calls on the same strategy never overlap: at no moment are
\* two threads inside Update of one strategy, so each Update runs entirely
\* before or entirely after the other.
C15_UpdatesNeverOverlap ==
    \A t1, t2 \in Threads :
        (t1 # t2 /\ pc[t1] = "InUpdate" /\ pc[t2] = "InUpdate")
            => arg[t1].name # arg[t2].name

\* C15 witness: one thread is inside Update of a strategy while another thread's
\* ExecuteStrategy of the same strategy waits to enter Update
C15_Witness ==
    \E t1, t2 \in Threads :
        /\ pc[t1] = "InUpdate"
        /\ pc[t2] = "Update"
        /\ arg[t1].name = arg[t2].name

\* the closes applied for strategy name whose notification is still to come
PendingFor(name) == SelectSeq(pendingCloses, LAMBDA e : e.name = name)

\* C16: a strategy receives its OnPositionOpened / OnPositionClosed notifications
\* in the order in which the engine applied the changes to its maps: a close is
\* notified only when no earlier close of the strategy still waits, and a
\* position is registered (and notified) only when no close of the strategy
\* that was applied before it still waits to be notified.
C16_NotificationsInAppliedOrder ==
    [][\A t \in Threads :
           /\ (pc[t] = "OnPositionClosed" /\ pc'[t] # "OnPositionClosed")
                  => \A i \in 1..Len(pendingCloses) :
                         (pendingCloses[i].thread = t
                          /\ pendingCloses[i].name \in mStrategies)
                             => PendingFor(pendingCloses[i].name)[1].thread = t
           /\ (pc[t] = "RegisterPosition2" /\ pc'[t] = "NotifyPositionUpdate")
                  => PendingFor(arg[t].name) = <<>>]_vars

\* ================================================================== claims: statistics
\* C17: whatever positions were closed (with a positive, zero or negative pnl)
\* and whatever strategies were reset, every strategy's statistics satisfy
\* total_trades = winning_trades + losing_trades.
C17_TotalIsWinsPlusLosses ==
    \A name \in DOMAIN mStrategyStats :
        mStrategyStats[name].mTotalTrades
            = mStrategyStats[name].mWinningTrades + mStrategyStats[name].mLosingTrades

\* a close has just been counted, and it was not a win
C17_Witness ==
    \E name \in DOMAIN mStrategyStats, t \in Threads :
        /\ pc[t] = "OnPositionClosed"
        /\ mStrategyStats[name].mTotalTrades = 1
        /\ mStrategyStats[name].mLosingTrades = 1

\* ================================================================== claims: strategies
\* C18: after any sequence of Update, Configure, Reset and Deserialize calls the
\* indicator history holds at most 500 entries, the signal history at most 100,
\* and the close-price buffer at most max(period * 3, 200).
C18_BuffersWithinCaps ==
    /\ mIndicatorHistory <= MaxIndicatorHistory
    /\ Len(mSignalHistory) <= MaxSignalHistory
    /\ mClosePrices <= MaxOf(mPeriod * 3, MinClosePrices)

\* C19: a signal type is never emitted again before the strategy's cooldown has
\* passed since the previous emission of that same type, whatever other types
\* were emitted in between.
C19_CooldownPerSignalType ==
    [][(mSignalHistory' # mSignalHistory /\ mSignalHistory' # <<>>)
           => LET k == mSignalHistory'[Len(mSignalHistory')].mType
              IN  \/ lastEmission[k] = NoTime
                  \/ (now - lastEmission[k]) \div SecondsPerMinute
                         >= CooldownMinutes(strategyKind)]_vars

\* ================================================================== claims: daily reset
\* C20: a CheckMaxDailyLoss that finds the day advanced since mStartOfDay sets
\* today's PnL to 0 and mStartOfDay to the new day before it evaluates the
\* limit, and the check resets today's PnL only then: it never erases a PnL
\* recorded while the day of mStartOfDay is the current day.
C20_DailyResetOnlyOnNewDay ==
    [][\A t \in Threads :
           /\ (rpc[t] = "CheckMaxDailyLoss" /\ rpc'[t] # "CheckMaxDailyLoss" /\ DayAdvanced)
                  => rpc'[t] = "DailyLossReset"
           /\ (rpc[t] = "DailyLossReset" /\ rpc'[t] # "DailyLossReset")
                  => /\ mTodayPnL' = 0
                     /\ mStartOfDay' = FloorDay(now)
                     /\ rpc'[t] = "DailyLossEvaluate"
                     /\ (DayAdvanced \/ mTodayPnL = 0)]_vars

\* ================================================================== claims: persistence
\* C21: a snapshot taken by Serialize and loaded by Deserialize on a fresh
\* instance of the same class gives an instance with the configuration and the
\* current indicator values of the serialized one, and a history of
\* min(its history length, 100) entries.
C21_RoundTripRestores ==
    copy # NoCopy
        => /\ copy # BlockedCopy
           /\ copy.mPeriod = snapshot.of.mPeriod
           /\ copy.mCurrentValues = snapshot.of.mCurrentValues
           /\ copy.mIndicatorHistory
                  = MinOf(snapshot.of.mIndicatorHistory, SerializedHistoryMax)

\* C22: a Deserialize that fails, called directly, through LoadStrategyState or
\* through ImportStrategies, reports the failure to its caller and leaves the
\* configuration, the current values and the history as they were.
C22_FailedLoadChangesNothing ==
    [][(lastOutcome' \in {"threw", "swallowed"} /\ UNCHANGED <<engineVars, riskVars>>)
           => /\ lastOutcome' = "threw"
              /\ UNCHANGED <<mPeriod, mCurrentValues, mIndicatorHistory>>]_vars


\* ------------------------------------------------------------------ Start / Stop
\* One strategy instance, constructed and then registered with the engine,
\* started and stopped through the engine, and fed by Update.
InitStartStop ==
    /\ InitEngineAndRisk
    /\ strategyKind \in StrategyKinds
    /\ FreshStrategy
    /\ mIsInitialized = FALSE
    /\ analysis = NewRSIAnalysis

NextStartStop ==
    \/ \E t \in Threads :
        \/ RegisterInstance(t)
        \/ StartInstance(t)
        \/ StopInstance(t)
    \/ StrategyUpdate

SpecStartStop == InitStartStop /\ [][NextStartStop]_vars

NextExecuteAll ==
    \E t \in Threads :
        \/ RegisterStrategy(t)
        \/ RemoveStrategy(t)
        \/ StartStrategy(t)
        \/ StopStrategy(t)
        \/ ExecuteAllStrategies(t)
        \/ ExecuteAllLoop(t)
        \/ UpdateBegin(t)
        \/ ExecuteUpdate(t)
        \/ ExecuteCatch(t)
        \/ ExecuteReturn(t)
        \/ NotifyError(t)
        \/ NotifyStrategySignal(t)
        \/ CallbackReturn(t)
        \/ SetStrategyCallback(t)
        \/ SetErrorCallback(t)

SpecExecuteAll == Init /\ [][NextExecuteAll]_vars

\* the recorded state of a strategy, "none" when the map has no entry
StateEntry(name) == IF Has(mStrategyStates, name) THEN mStrategyStates[name] ELSE "none"

\* the strategy the loop of thread t is executing, "" when it has no more
Executing(t) ==
    IF pc[t] # "ExecuteAllStrategies" THEN arg[t].name
    ELSE IF activeStrategies[t].todo = <<>> THEN ""
    ELSE Head(activeStrategies[t].todo)

\* C24: in ExecuteAllStrategies the failure of one strategy neither keeps any
\* other strategy of the active set from being executed in the same call nor
\* changes any other strategy's state: every step of the call leaves the
\* recorded state of every other strategy alone, and when the call returns
\* ExecuteStrategy has been called for every name of the active set.
C24_FailuresIsolated ==
    [][\A t \in Threads :
           (/\ activeStrategies[t].running
            /\ (pc'[t] # pc[t] \/ activeStrategies'[t] # activeStrategies[t]))
               => /\ \A n \in Names \ {Executing(t)} : StateEntry(n)' = StateEntry(n)
                  /\ ~activeStrategies'[t].running
                         => activeStrategies[t].called = activeStrategies[t].snapshot]_vars

\* the loop has come to its end after the first strategy of two failed
C24_Witness ==
    \E t \in Threads :
        /\ pc[t] = "ExecuteAllStrategies"
        /\ activeStrategies[t].todo = <<>>
        /\ activeStrategies[t].snapshot = {"rsi", "sma"}
        /\ activeStrategies[t].called = {"rsi", "sma"}
        /\ "rsi" \in activeStrategies[t].failed


\* ------------------------------------------------------------------ backtester
\* One backtester: fee and slippage are set, data is loaded from a CSV file or
\* from the exchange, and Run replays it with a strategy that may give any
\* signal on any candle.
NextBackTest ==
    \/ SetFeeRate
    \/ SetSlippageModel
    \/ LoadHistoricalData
    \/ LoadHistoricalDataFromAPI
    \/ Run
    \/ RunCandle
    \/ RunFinish

SpecBackTest == Init /\ [][NextBackTest]_vars

\* the signal of the candle Run has just handled
LastSignal(b) == b.signals[Len(b.signals)]

\* C25: the backtester holds at most one long position: a BUY while a position
\* is open, a SELL while none is open and a signal that is neither BUY nor SELL
\* change neither the cash, the position quantity, the trade log nor the
\* counters, and an open position is never added to.
C25_AtMostOneLong ==
    [][(backtester.running /\ backtester'.i = backtester.i + 1)
           => /\ (\/ LastSignal(backtester') = "BUY" /\ backtester.mCurrentPosition > 0
                  \/ LastSignal(backtester') = "SELL" /\ backtester.mCurrentPosition = 0
                  \/ LastSignal(backtester') \notin {"BUY", "SELL"})
                     => /\ backtester'.mCurrentBalance = backtester.mCurrentBalance
                        /\ backtester'.mCurrentPosition = backtester.mCurrentPosition
                        /\ backtester'.mPositionValue = backtester.mPositionValue
                        /\ backtester'.mTrades = backtester.mTrades
                        /\ backtester'.mTotalTrades = backtester.mTotalTrades
                        /\ backtester'.mWinningTrades = backtester.mWinningTrades
                        /\ backtester'.mLosingTrades = backtester.mLosingTrades
              /\ backtester'.mCurrentPosition >= 0
              /\ backtester.mCurrentPosition > 0
                     => backtester'.mCurrentPosition \in {0, backtester.mCurrentPosition}]_vars

\* a BUY has just arrived while the position opened two candles before is held
C25_Witness ==
    /\ backtester.running
    /\ backtester.signals = <<"BUY", "HOLD", "BUY">>
    /\ backtester.mCurrentPosition > 0
    /\ Len(backtester.mTrades) = 1

\* C26: with no fee and no slippage, closes 100, 100, 110, 110, 100, a BUY on
\* the first candle and a SELL on the third, the result has a win rate of 100%
\* and a maximum drawdown of 0.
C26_ScenarioWinRateAndDrawdown ==
    [][(/\ backtester.running
        /\ backtester'.mResultAvailable
        /\ backtester.mHistoricalData = RisingThenFalling
        /\ backtester.mFeeRate = 0
        /\ backtester.mSlippagePercent = 0
        /\ backtester.signals = <<"BUY", "HOLD", "SELL", "HOLD", "HOLD">>)
           => /\ backtester'.mWinRate = 100
              /\ backtester'.mMaxDrawdown = 0]_vars

\* C27: after either load the candles are in non-decreasing open-time order.
C27_LoadedInTimeOrder ==
    backtester.loaded # "none"
        => \A j \in 1..(Len(backtester.mHistoricalData) - 1) :
               backtester.mHistoricalData[j].mOpenTime
                   <= backtester.mHistoricalData[j + 1].mOpenTime


\* ------------------------------------------------------------------ RSI signals
\* One CRSIStrategy with default parameters: Updates with enough data, and
\* direct calls of AnalyzeRSISignal.
NextRSISignals ==
    \/ RSIUpdate
    \/ RSIAnalyzeCall

SpecRSISignals == Init /\ [][NextRSISignals]_vars

\* the zone-entry condition on two values
ZoneEntry(current, previous) ==
    \/ /\ DetermineRSIZone(current.mRSI) = "OVERSOLD"
       /\ DetermineRSIZone(previous.mRSI) \notin {"OVERSOLD", "EXTREME_OVERSOLD"}
    \/ /\ DetermineRSIZone(current.mRSI) = "OVERBOUGHT"
       /\ DetermineRSIZone(previous.mRSI) \notin {"OVERBOUGHT", "EXTREME_OVERBOUGHT"}

InitMACDSignals ==
    /\ InitEngineAndRisk
    /\ strategyKind = "MACD"
    /\ FreshStrategy
    /\ mIsInitialized = TRUE
    /\ \E h \in BOOLEAN, z \in BOOLEAN, d \in BOOLEAN :
           analysis = NewMACDAnalysis(h, z, d)

NextMACDSignals ==
    \/ MACDUpdate
    \/ MACDDeserialize
    \/ SetHistogramAnalysis
    \/ SetZeroLineCrossDetection

SpecMACDSignals == InitMACDSignals /\ [][NextMACDSignals]_vars

Sign(x) == IF x > 0 THEN 1 ELSE IF x < 0 THEN -1 ELSE 0

\* C29: with histogram analysis enabled, an Update is classified as a
\* histogram turn exactly when the previous and the current histogram have
\* different signs and the current histogram is not zero.
C29_HistogramTurnOnSignChange ==
    (/\ analysis.classified.by = "Update"
     /\ analysis.classified.histogramAnalysis)
        => (analysis.classified.signalType
                \in {"HISTOGRAM_TURN_POSITIVE", "HISTOGRAM_TURN_NEGATIVE"}
            <=> /\ Sign(analysis.classified.previous.mHistogram)
                       # Sign(analysis.classified.current.mHistogram)
                /\ analysis.classified.current.mHistogram # 0)


\* ------------------------------------------------------------------ SMA signals
\* One CSMAStrategy: Updates with enough data and the switch of the triple mode.
InitSMASignals ==
    /\ InitEngineAndRisk
    /\ strategyKind = "SMA"
    /\ FreshStrategy
    /\ mIsInitialized = TRUE
    /\ analysis = NewSMAAnalysis

NextSMASignals ==
    \/ SMAUpdate
    \/ SetTripleMAMode

SpecSMASignals == InitSMASignals /\ [][NextSMASignals]_vars

\* fast > slow > long
BullAligned(values) ==
    values.mFastSMA > values.mSlowSMA /\ values.mSlowSMA > values.mLongSMA

\* C30: in triple-MA mode, when neither the crossover nor the trend rules
\* match, an Update is classified TRIPLE_ALIGNMENT_BULL exactly when
\* fast > slow > long holds for the current values and did not hold for the
\* previous ones.
C30_TripleAlignmentOnEdge ==
    (/\ analysis.classified.by = "Update"
     /\ analysis.classified.mConfiguration = "TRIPLE_MA"
     /\ analysis.classified.valid
     /\ analysis.classified.earlier = "NONE")
        => (analysis.classified.signalType = "TRIPLE_ALIGNMENT_BULL"
            <=> /\ BullAligned(analysis.classified.current)
                /\ ~BullAligned(analysis.classified.previous))


\* ================================================================== claims: locking
\* the places where a thread is about to lock the registry mutex in the middle
\* of an operation
RequestsRegistry(t) ==
    pc[t] \in {"RegisterPosition2", "UpdatePosition2", "UpdateStrategyStatistics",
               "OnPositionClosed", "ExecuteCatch"}

\* C31: no thread requests the registry mutex while it holds the positions
\* mutex (the order is registry first, positions second).
C31_RegistryBeforePositions ==
    \A t \in Threads : RequestsRegistry(t) => mPositionsMutex # t


\* the step in which ExecuteStrategy validates the signal Update returned:
\* ValidateStrategy looks the name up in mStrategies and in mStrategyStates
ValidationStep(t) == pc[t] = "InUpdate" /\ pc'[t] = "NotifyStrategySignal"

\* C35: every access to the registry maps is made by a thread that holds the
\* registry mutex, the validation after Update included.
C35_RegistryAccessUnderMutex ==
    [][\A t \in Threads : ValidationStep(t) => mStrategiesMutex = t]_vars


\* ------------------------------------------------------------------ strategy calls
\* One strategy instance with no other thread in it: Update, Serialize and
\* Deserialize are called one after the other.
NextStrategyCalls ==
    \/ StrategyUpdate
    \/ StrategySerialize
    \/ StrategyDeserialize

SpecStrategyCalls == InitStrategy /\ [][NextStrategyCalls]_vars

\* C33: no strategy method locks a mutex its own thread already holds: every
\* call of Update, Serialize and Deserialize on an idle strategy returns.
C33_StrategyCallsReturn == ~strategyBlocked /\ lastOutcome # "blocked"


\* ================================================================== strategy mutexes
\* The mutexes one strategy object's methods take, in the order they take them.
\* Every method below starts with lock_guard(mDataMutex) and calls, with the
\* guard alive, a function that starts with lock_guard on a second mutex.
LockedMethods == {"Update", "Initialize", "Reset", "Serialize"}

\* the function a method calls first while it holds mDataMutex
FirstCall(method, kind) ==
    CASE method = "Update" /\ kind = "SMA" -> "UpdateSupportResistanceLevels"
      [] method = "Update" /\ kind = "RSI" -> "UpdateZoneStatistics"
      [] method = "Update" /\ kind = "MACD" -> "UpdateTrendStatistics"
      [] method \in {"Initialize", "Reset"} -> "ResetMetrics"
      [] method = "Serialize" -> "GetCurrentConfig"

\* the callees that lock mDataMutex again, and what their caller calls next
DataLockers == {"UpdateSupportResistanceLevels", "GetCurrentConfig"}
CallAfter(callee) ==
    IF callee = "GetCurrentConfig" THEN "GetCustomMetrics" ELSE "UpdateTrendStatistics"

\* the callees that start with lock_guard(mMetricsMutex)
MetricsLockers == {"UpdateZoneStatistics", "UpdateTrendStatistics", "ResetMetrics",
                   "GetCustomMetrics"}

StrategyLocksUnchanged ==
    UNCHANGED <<engineVars, riskVars, strategyVars, backtester, analysis, strategyObjects>>

\* a thread calls Update, Initialize, Reset or Serialize: lock_guard(mDataMutex)
StrategyEnter(t) ==
    /\ StrategyLocksUnchanged
    /\ locks.at[t] = "idle"
    /\ locks.mDataMutex = NoThread
    /\ \E method \in LockedMethods :
           locks' = [locks EXCEPT !.mDataMutex = t,
                                  !.at[t] = FirstCall(method, strategyKind),
                                  !.in[t] = method]

\* the callee locks mDataMutex, which its own thread holds: on a std::mutex the
\* behaviour is undefined, the thread stays there or goes on
RelockData(t) ==
    /\ StrategyLocksUnchanged
    /\ locks.at[t] \in DataLockers
    /\ \E next \in {"blocked", CallAfter(locks.at[t])} :
           locks' = [locks EXCEPT !.at[t] = next]

\* the callee takes mMetricsMutex; the caller's guard on mDataMutex is alive
LockMetrics(t) ==
    /\ StrategyLocksUnchanged
    /\ locks.at[t] \in MetricsLockers
    /\ locks.mMetricsMutex = NoThread
    /\ locks' = [locks EXCEPT !.mMetricsMutex = t, !.at[t] = "metrics locked"]

\* UpdateMetrics, the method the engine calls with no strategy mutex held
StrategyUpdateMetrics(t) ==
    /\ StrategyLocksUnchanged
    /\ locks.at[t] = "idle"
    /\ locks.mMetricsMutex = NoThread
    /\ locks' = [locks EXCEPT !.mMetricsMutex = t, !.at[t] = "metrics locked",
                              !.in[t] = "UpdateMetrics"]

\* the callee and then the method return: both guards go out of scope
StrategyLeave(t) ==
    /\ StrategyLocksUnchanged
    /\ locks.at[t] = "metrics locked"
    /\ locks' = [locks EXCEPT !.mMetricsMutex = NoThread,
                              !.mDataMutex = Rel(@, t),
                              !.at[t] = "idle", !.in[t] = ""]

NextStrategyLocks ==
    \/ \E t \in Threads : StrategyEnter(t)
    \/ \E t \in Threads : RelockData(t)
    \/ \E t \in Threads : LockMetrics(t)
    \/ \E t \in Threads : StrategyUpdateMetrics(t)
    \/ \E t \in Threads : StrategyLeave(t)

SpecStrategyLocks == InitStrategy /\ [][NextStrategyLocks]_vars

\* C34: inside a strategy no thread acquires the metrics mutex while it holds
\* the data mutex: Update, Initialize, Reset and Serialize have released the data
\* mutex before any code that locks the metrics mutex runs.
C34_MetricsNotUnderData ==
    \A t \in Threads : locks.at[t] \in MetricsLockers => locks.mDataMutex # t

\* ================================================================== engine threads that wait
\* the class of the object registered under each name
KindOf(name) == IF name = "sma" THEN "SMA" ELSE "RSI"

EngineWaitUnchanged ==
    UNCHANGED <<analysis, backtester, objectVars, activeStrategies, riskVars,
                strategyVars, stopped, pendingCloses, mStrategies, mOpenPositions,
                mPositionToStrategy, mStrategyPositions, mPositionsMutex,
                mCallbacksMutex, mStrategyCallback, mPositionCallback,
                mErrorCallback, closedIds>>

\* CSMAStrategy::Update reaches UpdateSupportResistanceLevels, whose callee
\* GetDynamicSupport locks the mDataMutex Update holds: the outcome where the
\* thread stays at that lock (ExecuteUpdate is the outcome where it goes on)
UpdateRelock(t) ==
    /\ EngineWaitUnchanged
    /\ pc[t] = "InUpdate"
    /\ KindOf(arg[t].name) = "SMA"
    /\ pc' = [pc EXCEPT ![t] = "Blocked"]
    /\ UNCHANGED <<arg, mDataMutex, mStrategiesMutex, mStrategyStates, mStrategyStats>>

\* ResetStrategy when another thread is inside the strategy: the registry mutex
\* is taken and strategy->Reset() waits for mDataMutex
ResetStrategyWaits(t) ==
    /\ EngineWaitUnchanged
    /\ \E name \in mStrategies :
           /\ Idle(t)
           /\ mStrategiesMutex = NoThread
           /\ ~DataMutexFree(name)
           /\ mStrategiesMutex' = t
           /\ pc' = [pc EXCEPT ![t] = "Reset"]
           /\ arg' = [arg EXCEPT ![t] = [NoArg EXCEPT !.name = name]]
    /\ UNCHANGED <<mDataMutex, mStrategyStates, mStrategyStats>>

\* strategy->Reset() got mDataMutex and ran; ResetStrategy goes on as above
ResetStrategyResumes(t) ==
    /\ EngineWaitUnchanged
    /\ pc[t] = "Reset"
    /\ DataMutexFree(arg[t].name)
    /\ \E throws \in BOOLEAN :
           IF throws
           THEN /\ pc' = [pc EXCEPT ![t] = "NotifyError"]
                /\ UNCHANGED <<arg, mStrategiesMutex, mStrategyStates, mStrategyStats>>
           ELSE /\ mStrategyStates' = Put(mStrategyStates, arg[t].name, INACTIVE)
                /\ mStrategyStats' = Put(mStrategyStats, arg[t].name, NewStats)
                /\ mStrategiesMutex' = NoThread
                /\ pc' = [pc EXCEPT ![t] = "idle"]
                /\ arg' = [arg EXCEPT ![t] = NoArg]
    /\ UNCHANGED mDataMutex

NextEngineWaits ==
    \/ NextLifecycle
    \/ \E t \in Threads : UpdateRelock(t)
    \/ \E t \in Threads : ResetStrategyWaits(t)
    \/ \E t \in Threads : ResetStrategyResumes(t)

SpecEngineWaits == Init /\ [][NextEngineWaits]_vars

\* the thread is at a lock it will never get: a mutex it holds itself, or a
\* strategy mutex whose holder is such a thread
WaitsForever(t) ==
    \/ pc[t] = "Blocked"
    \/ /\ pc[t] = "Reset"
       /\ \E u \in Threads : mDataMutex[arg[t].name] = u /\ pc[u] = "Blocked"

\* C32: when callbacks do not call back into the engine, no interleaving of
\* concurrent engine operations reaches a state in which threads wait for ever
\* for a registry, positions, callbacks or strategy mutex.
C32_NoThreadWaitsForever == \A t \in Threads : ~WaitsForever(t)

\* ================================================================== checked registration
\* the Risk Manager after construction and a SetMaxOpenPositions call made
\* before trading starts
InitCheckedRegister ==
    /\ \E maxPositions \in MaxOpenChoices : InitEngineAndRiskLimit(maxPositions)
    /\ strategyKind = "RSI"
    /\ FreshStrategy
    /\ mIsInitialized = TRUE
    /\ analysis = NewRSIAnalysis

\* a caller that got true from CheckPositionAllowed calls RegisterPosition:
\* first half, as RiskRegisterPosition
RegisterAfterCheck(t) ==
    /\ UNCHANGED <<analysis, backtester, objectVars, engineVars, strategyVars>>
    /\ rpc[t] = "Returned"
    /\ rarg[t].result = "true"
    /\ riskPositionsMutex = NoThread
    /\ \E id \in Ids, symbol \in Symbols, price \in RegisterPrices :
           LET position == [mSymbol |-> symbol, mQuantity |-> 1, mEntryPrice |-> price]
           IN  /\ mTotalExposure + ExposureOf(position) <= MaxExposure
               /\ riskOpenPositions' = Put(riskOpenPositions, id, position)
               /\ mSymbolExposure' = Put(mSymbolExposure, symbol,
                                         ExposureOn(symbol) + ExposureOf(position))
               /\ riskPositionsMutex' = t
               /\ rpc' = [rpc EXCEPT ![t] = "RegisterPosition2"]
               /\ rarg' = [rarg EXCEPT ![t] = [NoRArg EXCEPT !.id = id]]
    /\ UNCHANGED <<mLastTradeTime, mTotalExposure, mTodayPnL, mStartOfDay,
                   mMaxOpenPositions, mActiveAlerts, now>>

NextCheckedRegister ==
    \/ \E t \in Threads :
           \/ CheckPositionAllowed(t)
           \/ CheckMaxOpenPositions(t)
           \/ CheckMaxDailyLoss(t)
           \/ DailyLossReset(t)
           \/ DailyLossEvaluate(t)
           \/ CheckSymbolExposure(t)
           \/ CheckTradeFrequency(t)
           \/ CheckReturn(t)
           \/ RegisterAfterCheck(t)
           \/ RiskRegisterPosition2(t)
           \/ RiskClosePosition(t)
           \/ RiskClosePosition2(t)
    \/ ClockTick
    \/ ClockNextDay

SpecCheckedRegister == InitCheckedRegister /\ [][NextCheckedRegister]_vars

\* C36: when every RegisterPosition of the Risk Manager follows a
\* CheckPositionAllowed of the same thread that returned true, the number of
\* open positions never exceeds max_open_positions, under any interleaving.
C36_OpenPositionsWithinLimit ==
    Cardinality(DOMAIN riskOpenPositions) <= mMaxOpenPositions

\* ================================================================== claims: removal
\* the step in which RemoveStrategy(name) runs
Removes(name) == name \in mStrategies /\ name \notin mStrategies'

\* the ids that the open-positions map or the id->strategy map gives to name
OwnedBy(name) ==
    {id \in DOMAIN mOpenPositions : mOpenPositions[id].mStrategyName = name}
        \cup {id \in DOMAIN mPositionToStrategy : mPositionToStrategy[id] = name}

\* C37: after RemoveStrategy(s) returns, no position owned by s remains in the
\* open-positions map or in the id->strategy map.
C37_RemoveDropsPositions ==
    [][\A name \in Names : Removes(name) => OwnedBy(name)' = {}]_vars

\* ================================================================== the strategies' position hooks
\* UpdateMetrics: one more trade in the strategy's own metrics
MetricsUpdated(object) == [object EXCEPT !.mTotalTrades = @ + 1]

\* OnPositionOpened for a position that carries the strategy's name
PositionOpened(object, id) ==
    [object EXCEPT !.mInPosition = TRUE, !.mCurrentPositionId = id]

\* OnPositionClosed: only the position whose id is mCurrentPositionId clears the
\* flag, and then UpdateMetrics is called
PositionClosed(object, id) ==
    IF id = object.mCurrentPositionId
    THEN MetricsUpdated([object EXCEPT !.mInPosition = FALSE, !.mCurrentPositionId = ""])
    ELSE object

\* RegisterPosition, second half, with the RSI/SMA/MACD OnPositionOpened
RegisterPosition2Notifies(t) ==
    /\ RegisterPosition2Engine(t)
    /\ strategyObjects' =
           IF RegisterPositionAccepts(arg[t].id, arg[t].name)
           THEN [strategyObjects EXCEPT ![arg[t].name] = PositionOpened(@, arg[t].id)]
           ELSE strategyObjects

\* UpdateStrategyStatistics with the strategies' UpdateMetrics: called when the
\* statistics entry and the strategy are both found
UpdateStrategyStatisticsNotifies(t) ==
    /\ UpdateStrategyStatisticsEngine(t)
    /\ strategyObjects' =
           IF Has(mStrategyStats, arg[t].name) /\ arg[t].name \in mStrategies
           THEN [strategyObjects EXCEPT ![arg[t].name] = MetricsUpdated(@)]
           ELSE strategyObjects

\* the close this thread is carrying out
ClosingOf(t) ==
    LET mine == SelectSeq(pendingCloses, LAMBDA e : e.thread = t) IN mine[1]

\* ClosePosition, third block, with the strategies' OnPositionClosed
OnPositionClosedNotifies(t) ==
    /\ OnPositionClosedEngine(t)
    /\ strategyObjects' =
           IF ClosingOf(t).name \in mStrategies
           THEN [strategyObjects EXCEPT
                     ![ClosingOf(t).name] = PositionClosed(@, ClosingOf(t).id)]
           ELSE strategyObjects

\* The position book with strategy objects that follow their positions.
NextStrategyPositions ==
    \E t \in Threads :
        \/ RegisterStrategy(t)
        \/ RegisterPosition(t)
        \/ RegisterPosition2Notifies(t)
        \/ ClosePosition(t)
        \/ UpdateStrategyStatisticsNotifies(t)
        \/ OnPositionClosedNotifies(t)
        \/ NotifyPositionUpdate(t)

SpecStrategyPositions == Init /\ [][NextStrategyPositions]_vars

\* C38: each successful ClosePosition of the engine raises the strategy's own
\* trade counter by exactly one, so that at rest the strategy's total trades
\* equal the engine's stats.total_trades for it.
C38_StrategyTradesMatchEngine ==
    AllIdle => \A name \in mStrategies :
                   strategyObjects[name].mTotalTrades = mStrategyStats[name].mTotalTrades

\* C39: at rest a strategy's in-position flag is true exactly when the engine
\* holds at least one open position owned by it, after any sequence of
\* RegisterPosition and ClosePosition, several positions open at once included.
C39_InPositionIffOpenPosition ==
    AllIdle => \A name \in mStrategies :
                   strategyObjects[name].mInPosition
                       <=> (\E id \in DOMAIN mPositionToStrategy :
                                mPositionToStrategy[id] = name)

\* ================================================================== claims: Configure
\* C40: when Configure throws because a parameter is invalid, the strategy's
\* parameters are the same as before the call.
C40_ConfigureThrowKeepsParameters ==
    [][(StrategyConfigure /\ lastOutcome' = "configure threw") => mPeriod' = mPeriod]_vars
====
